---- MODULE Spec2Model ----
(***************************************************************************)
(* Model of the vector index of legalbot-rag: the facade of                *)
(* src/retrieval/vectorStore.ts (remote Chroma collection, with fallback   *)
(* to the local store) and the local JSON store of                         *)
(* src/retrieval/localVectorStore.ts.                                      *)
(*                                                                         *)
(* Scores are real numbers dot / sqrt(normA * normB).  They are kept       *)
(* exactly, as a sign and the reduced fraction dot^2 / (normA * normB);    *)
(* floating-point rounding is not modelled.                                *)
(***************************************************************************)
EXTENDS Integers, Sequences, FiniteSets, TLC

VARIABLES
    client,         \* vectorStore.ts: client is non-null
    collection,     \* vectorStore.ts: collection is non-null
    useLocalStore,  \* vectorStore.ts: useLocalStore
    remote,         \* the entries of the collection held by the Chroma server
    storeData,      \* localVectorStore.ts: storeData.chunks
    initialized,    \* localVectorStore.ts: initialized
    file,           \* the content of ./data/vector_store.json
    lastOp,         \* history: the last call, its arguments and its outcome
    probeCount,     \* history: heartbeats sent since the process started (capped)
    chosen,         \* history: the realization chosen by the first initialization
    latest,         \* history: per id, the entry of the most recent upsert
    preRestart,     \* history: the entries in memory when the process restarted
    tasks           \* concurrent specification: the calls in flight, and
                    \* (history) the entries as the last finished upsert left them

vars == <<client, collection, useLocalStore, remote, storeData, initialized,
          file, lastOp, probeCount, chosen, latest, preRestart, tasks>>

facadeVars == <<client, collection, useLocalStore, remote>>

(***************************************************************************)
(* Bounds of the model.                                                    *)
(***************************************************************************)
MaxBatch == 2
MaxTopK == 2

(***************************************************************************)
(* Values.                                                                 *)
(***************************************************************************)
Undefined == "undefined"
None == [id |-> "none"]
NoFile == [exists |-> FALSE, parses |-> FALSE, chunks |-> <<>>, version |-> 0]
CorruptFile == [exists |-> TRUE, parses |-> FALSE, chunks |-> <<>>, version |-> 0]

\* types.ts LegalMetadata: law and article are required, title is optional.
\* (lawFullName, chapter, articleTitle and sourceFile are carried the same
\* way and are left out of the model.)
MetaKeys == {"law", "article", "title"}

MetaGet(metadata, key) ==
    IF key \in DOMAIN metadata THEN metadata[key] ELSE Undefined

EmbeddedChunk(id, text, embedding, metadata) ==
    [id |-> id, text |-> text, embedding |-> embedding, metadata |-> metadata]

\* The embedded provisions the callers may pass.  Two entries share the id
\* LAU-art-1 (a re-ingested article), two share LPH-chunk-0 (one of them
\* with a vector of another dimension), and LAU-art-1 and LPH-art-1 have the
\* same vector.
Catalogue ==
    { EmbeddedChunk("LAU-art-1", "plazo", <<1, 0>>,
                    [law |-> "LAU", article |-> "Articulo 1", title |-> "TITULO I"]),
      EmbeddedChunk("LAU-art-1", "prorroga", <<0, 1>>,
                    [law |-> "LAU", article |-> "Articulo 1", title |-> "TITULO II"]),
      EmbeddedChunk("LPH-art-1", "cuotas", <<1, 0>>,
                    [law |-> "LPH", article |-> "Articulo 1", title |-> "TITULO I"]),
      EmbeddedChunk("LPH-chunk-0", "junta", <<1, 1>>,
                    [law |-> "LPH", article |-> "Fragmento 1"]),
      EmbeddedChunk("LPH-chunk-0", "acta", <<1>>,
                    [law |-> "LAU", article |-> "Fragmento 1"]) }

Ids == {c.id : c \in Catalogue}
Laws == {"LAU", "LPH"}

RECURSIVE SeqsUpTo(_, _)
SeqsUpTo(S, n) ==
    IF n = 0 THEN {<<>>}
    ELSE LET shorter == SeqsUpTo(S, n - 1)
         IN  shorter \cup {Append(s, x) : s \in {t \in shorter : Len(t) = n - 1}, x \in S}

Batches == SeqsUpTo(Catalogue, MaxBatch)

QueryVectors == {<<1, 0>>, <<-1, 1>>, <<0, 0>>, <<1>>}

\* topK of queryChunks; DefaultTopK stands for an omitted argument.
DefaultTopK == 5
TopKs == (0 .. MaxTopK) \cup {DefaultTopK}

\* filter?: Record<string, string>, as the set of its entries.
Filter(given, where) == [given |-> given, where |-> where]
NoFilter == Filter(FALSE, {})
Filters ==
    { NoFilter,
      Filter(TRUE, {}),
      Filter(TRUE, {<<"law", "LAU">>}),
      Filter(TRUE, {<<"law", "LPH">>, <<"article", "Articulo 1">>}),
      Filter(TRUE, {<<"title", "TITULO I">>}) }

(***************************************************************************)
(* Scores: the real number sgn * sqrt(p / q), with p / q in lowest terms.  *)
(***************************************************************************)
RECURSIVE Gcd(_, _)
Gcd(a, b) == IF b = 0 THEN a ELSE Gcd(b, a % b)

Sign(x) == IF x < 0 THEN -1 ELSE IF x > 0 THEN 1 ELSE 0

ZeroScore == [sgn |-> 0, p |-> 0, q |-> 1]
OneScore == [sgn |-> 1, p |-> 1, q |-> 1]

\* dot / sqrt(norms), norms > 0
Ratio(dot, norms) ==
    IF dot = 0 THEN ZeroScore
    ELSE LET g == Gcd(dot * dot, norms)
         IN  [sgn |-> Sign(dot), p |-> (dot * dot) \div g, q |-> norms \div g]

\* s1 < s2
ScoreLess(s1, s2) == s1.sgn * s1.p * s2.q < s2.sgn * s2.p * s1.q

(***************************************************************************)
(* cosineSimilarity, as localVectorStore.ts and embedder.ts compute it.    *)
(***************************************************************************)
RECURSIVE DotFrom(_, _, _)
DotFrom(a, b, i) ==
    IF i > Len(a) THEN 0 ELSE a[i] * b[i] + DotFrom(a, b, i + 1)

\* the loop of cosineSimilarity: dotProduct, normA, normB
DotProduct(a, b) == DotFrom(a, b, 1)

\* the value both functions return for vectors of equal length
CosineOfEqualLength(a, b) ==
    LET dotProduct == DotProduct(a, b)
        normA == DotProduct(a, a)
        normB == DotProduct(b, b)
    IN  IF normA * normB = 0 THEN ZeroScore ELSE Ratio(dotProduct, normA * normB)

\* localVectorStore.ts cosineSimilarity: unequal lengths give 0
LocalCosineSimilarity(a, b) ==
    IF Len(a) # Len(b) THEN ZeroScore ELSE CosineOfEqualLength(a, b)

\* embedder.ts cosineSimilarity: unequal lengths throw
CosineSimilarity(a, b) ==
    IF Len(a) # Len(b)
    THEN [threw |-> TRUE, message |-> "Vectors must have the same length", score |-> ZeroScore]
    ELSE [threw |-> FALSE, message |-> "", score |-> CosineOfEqualLength(a, b)]

(***************************************************************************)
(* The local store: localVectorStore.ts.                                   *)
(***************************************************************************)
\* JSON.stringify of one stored chunk: a property whose value is undefined
\* is not written.
JSONChunk(c) ==
    [id |-> c.id, text |-> c.text, embedding |-> c.embedding,
     metadata |-> [k \in {j \in DOMAIN c.metadata : c.metadata[j] # Undefined}
                     |-> c.metadata[k]]]

\* saveStore: writeFileSync(storePath, JSON.stringify(storeData))
SaveStore(chunks) ==
    [exists |-> TRUE, parses |-> TRUE,
     chunks |-> [i \in 1 .. Len(chunks) |-> JSONChunk(chunks[i])],
     version |-> 1]

\* initLocalVectorStore that starts a new store without reading the file
LoadStoreAlwaysNew(f) == <<>>

\* initLocalVectorStore: the chunks of storeData once it returns
LoadStore(f) ==
    IF f.exists /\ f.parses THEN f.chunks ELSE <<>>

\* findIndex that does not look at the first entry
FindIndexSkipFirst(chunks, id) ==
    IF \E i \in 2 .. Len(chunks) : chunks[i].id = id
    THEN CHOOSE i \in 2 .. Len(chunks) :
            /\ chunks[i].id = id
            /\ \A j \in 2 .. (i - 1) : chunks[j].id # id
    ELSE 0

\* findIndex(c => c.id === id): the first position, 0 when there is none
FindIndex(chunks, id) ==
    IF \E i \in 1 .. Len(chunks) : chunks[i].id = id
    THEN CHOOSE i \in 1 .. Len(chunks) :
            /\ chunks[i].id = id
            /\ \A j \in 1 .. (i - 1) : chunks[j].id # id
    ELSE 0

\* splice(existingIndex, 1)
Splice(chunks, i) ==
    [j \in 1 .. (Len(chunks) - 1) |-> IF j < i THEN chunks[j] ELSE chunks[j + 1]]

\* a turn of the loop that pushes without removing the entry of the same id
UpsertOneAppendOnly(chunks, chunk) ==
    Append(chunks, [id |-> chunk.id, text |-> chunk.text,
                    embedding |-> chunk.embedding, metadata |-> chunk.metadata])

\* one turn of the loop of addChunksLocal
UpsertOne(chunks, chunk) ==
    LET existingIndex == FindIndex(chunks, chunk.id)
        kept == IF existingIndex >= 1 THEN Splice(chunks, existingIndex) ELSE chunks
    IN  Append(kept, [id |-> chunk.id, text |-> chunk.text,
                      embedding |-> chunk.embedding, metadata |-> chunk.metadata])

RECURSIVE UpsertLoop(_, _)
UpsertLoop(chunks, batch) ==
    IF batch = <<>> THEN chunks
    ELSE UpsertLoop(UpsertOne(chunks, Head(batch)), Tail(batch))

\* the predicate of candidates.filter in queryChunksLocal
MatchesFilter(chunk, filter) ==
    \A kv \in filter.where : MetaGet(chunk.metadata, kv[1]) = kv[2]

Candidates(chunks, filter) ==
    IF filter.given
    THEN SelectSeq(chunks, LAMBDA c : MatchesFilter(c, filter))
    ELSE chunks

Scored(candidates, queryEmbedding) ==
    [i \in 1 .. Len(candidates) |->
        [chunk |-> [id |-> candidates[i].id, text |-> candidates[i].text,
                    metadata |-> candidates[i].metadata],
         score |-> LocalCosineSimilarity(queryEmbedding, candidates[i].embedding)]]

\* scored.sort((a, b) => b.score - a.score): Array.prototype.sort is stable
InsertByScore(sorted, r) ==
    LET before == SelectSeq(sorted, LAMBDA x : ~ScoreLess(x.score, r.score))
        after == SelectSeq(sorted, LAMBDA x : ScoreLess(x.score, r.score))
    IN  before \o <<r>> \o after

RECURSIVE SortFrom(_, _, _)
SortFrom(sorted, scored, i) ==
    IF i > Len(scored) THEN sorted
    ELSE SortFrom(InsertByScore(sorted, scored[i]), scored, i + 1)

SortByScore(scored) == SortFrom(<<>>, scored, 1)

\* slice(0, end + 1): one result too many
Slice0OneMore(s, end) ==
    SubSeq(s, 1, IF end + 1 > Len(s) THEN Len(s) ELSE end + 1)

\* Array.prototype.slice(0, end)
Slice0(s, end) ==
    LET stop == IF end < 0 THEN (IF Len(s) + end < 0 THEN 0 ELSE Len(s) + end)
                ELSE (IF end > Len(s) THEN Len(s) ELSE end)
    IN  SubSeq(s, 1, stop)

\* queryChunksLocal that ranks and cuts all entries and filters afterwards
TopResultsFilterAfterCut(chunks, queryEmbedding, topK, filter) ==
    LET cut == Slice0(SortByScore(Scored(chunks, queryEmbedding)), topK)
    IN  IF filter.given
        THEN SelectSeq(cut, LAMBDA r : MatchesFilter(r.chunk, filter))
        ELSE cut

\* the value queryChunksLocal returns
TopResults(chunks, queryEmbedding, topK, filter) ==
    Slice0(SortByScore(Scored(Candidates(chunks, filter), queryEmbedding)), topK)

\* storeData.chunks.filter(c => c.metadata.law !== lawCode)
WithoutLaw(chunks, lawCode) ==
    SelectSeq(chunks, LAMBDA c : MetaGet(c.metadata, "law") # lawCode)

\* if (!initialized) await initLocalVectorStore(): the chunks the call works on
Ensured(chunks, isInit, f) == IF isInit THEN chunks ELSE LoadStore(f)

(***************************************************************************)
(* History variables.                                                      *)
(***************************************************************************)
\* the record of a call: its name, its arguments, the error it threw
\* ("none" when it returned), what it returned, the realization that served
\* it, whether it sent a heartbeat, and whether the call before it was the
\* same call with the same arguments and returned too; for a search that
\* ran next to other calls, the entries it read and the states of the index
\* between its call and its return
Op(name) ==
    [op |-> name, batch |-> <<>>, query |-> <<>>, topK |-> 0, filter |-> NoFilter,
     law |-> "", err |-> "none", result |-> <<>>, count |-> -1,
     served |-> "none", probed |-> FALSE, again |-> FALSE,
     view |-> <<>>, allowed |-> {}]

SameAdd(name, chunks) ==
    lastOp.op = name /\ lastOp.err = "none" /\ lastOp.batch = chunks

NoRestart == [set |-> FALSE, chunks |-> <<>>]

RECURSIVE LatestAfterUpsert(_, _)
LatestAfterUpsert(l, batch) ==
    IF batch = <<>> THEN l
    ELSE LatestAfterUpsert([l EXCEPT ![Head(batch).id] = Head(batch)], Tail(batch))

LatestAfterDelete(l, lawCode) ==
    [i \in Ids |-> IF l[i] # None /\ l[i].metadata.law = lawCode THEN None ELSE l[i]]

LatestOfNothing == [i \in Ids |-> None]

(***************************************************************************)
(* The calls of localVectorStore.ts.  Each one runs to its end: the only   *)
(* await of these functions is the one on initLocalVectorStore, whose body *)
(* is synchronous.  `name` is the exported function the caller used.       *)
(***************************************************************************)
LocalInit(name, probed) ==
    /\ storeData' = LoadStore(file)
    /\ initialized' = TRUE
    /\ lastOp' = [Op(name) EXCEPT !.served = "local", !.probed = probed]
    /\ UNCHANGED <<file, latest, preRestart>>

\* addChunksLocal without its saveStore()
LocalAddNoSave(name, chunks) ==
    LET stored == UpsertLoop(Ensured(storeData, initialized, file), chunks)
    IN  /\ storeData' = stored
        /\ initialized' = TRUE
        /\ latest' = LatestAfterUpsert(latest, chunks)
        /\ preRestart' = NoRestart
        /\ lastOp' = [Op(name) EXCEPT !.batch = chunks, !.served = "local",
                                      !.again = SameAdd(name, chunks)]
        /\ UNCHANGED file

LocalAdd(name, chunks) ==
    LET stored == UpsertLoop(Ensured(storeData, initialized, file), chunks)
    IN  /\ storeData' = stored
        /\ initialized' = TRUE
        /\ file' = SaveStore(stored)
        /\ latest' = LatestAfterUpsert(latest, chunks)
        /\ preRestart' = NoRestart
        /\ lastOp' = [Op(name) EXCEPT !.batch = chunks, !.served = "local",
                                      !.again = SameAdd(name, chunks)]

LocalQuery(name, queryEmbedding, topK, filter) ==
    LET chunks == Ensured(storeData, initialized, file)
    IN  /\ storeData' = chunks
        /\ initialized' = TRUE
        /\ lastOp' = [Op(name) EXCEPT !.query = queryEmbedding, !.topK = topK,
                                      !.filter = filter, !.served = "local",
                                      !.result = TopResults(chunks, queryEmbedding,
                                                            topK, filter)]
        /\ UNCHANGED <<file, latest, preRestart>>

LocalStats(name) ==
    LET chunks == Ensured(storeData, initialized, file)
    IN  /\ storeData' = chunks
        /\ initialized' = TRUE
        /\ lastOp' = [Op(name) EXCEPT !.served = "local", !.count = Len(chunks)]
        /\ UNCHANGED <<file, latest, preRestart>>

\* clearStoreLocal that empties the memory and does not write the file
LocalClearNoSave(name) ==
    /\ storeData' = <<>>
    /\ latest' = LatestOfNothing
    /\ preRestart' = NoRestart
    /\ lastOp' = [Op(name) EXCEPT !.served = "local"]
    /\ UNCHANGED <<initialized, file>>

\* clearStoreLocal does not look at `initialized` and does not set it
LocalClear(name) ==
    /\ storeData' = <<>>
    /\ file' = SaveStore(<<>>)
    /\ latest' = LatestOfNothing
    /\ preRestart' = NoRestart
    /\ lastOp' = [Op(name) EXCEPT !.served = "local"]
    /\ UNCHANGED initialized

LocalDelete(name, lawCode) ==
    LET kept == WithoutLaw(Ensured(storeData, initialized, file), lawCode)
    IN  /\ storeData' = kept
        /\ initialized' = TRUE
        /\ file' = SaveStore(kept)
        /\ latest' = LatestAfterDelete(latest, lawCode)
        /\ preRestart' = NoRestart
        /\ lastOp' = [Op(name) EXCEPT !.law = lawCode, !.served = "local"]

InitLocalVectorStore ==
    /\ LocalInit("initLocalVectorStore", FALSE)
    /\ UNCHANGED <<facadeVars, probeCount, chosen, tasks>>

AddChunksLocal ==
    \E chunks \in Batches :
        /\ LocalAdd("addChunksLocal", chunks)
        /\ UNCHANGED <<facadeVars, probeCount, chosen, tasks>>

QueryChunksLocal ==
    \E queryEmbedding \in QueryVectors, topK \in TopKs, filter \in Filters :
        /\ LocalQuery("queryChunksLocal", queryEmbedding, topK, filter)
        /\ UNCHANGED <<facadeVars, probeCount, chosen, tasks>>

GetStatsLocal ==
    /\ LocalStats("getStatsLocal")
    /\ UNCHANGED <<facadeVars, probeCount, chosen, tasks>>

ClearStoreLocal ==
    /\ LocalClear("clearStoreLocal")
    /\ UNCHANGED <<facadeVars, probeCount, chosen, tasks>>

DeleteByLawLocal ==
    \E lawCode \in Laws :
        /\ LocalDelete("deleteByLawLocal", lawCode)
        /\ UNCHANGED <<facadeVars, probeCount, chosen, tasks>>

\* The process ends and a new one starts: the module variables are back at
\* their initial values, the file and the Chroma server keep their content.
Restart ==
    /\ client' = FALSE
    /\ collection' = FALSE
    /\ useLocalStore' = FALSE
    /\ storeData' = <<>>
    /\ initialized' = FALSE
    /\ probeCount' = 0
    /\ chosen' = "none"
    /\ preRestart' = [set |-> TRUE, chunks |-> Ensured(storeData, initialized, file)]
    /\ lastOp' = Op("restart")
    /\ UNCHANGED <<remote, file, latest, tasks>>

\* the process has just started: nothing is loaded, the file is missing or
\* does not parse, the server holds an empty collection
Init ==
    /\ client = FALSE
    /\ collection = FALSE
    /\ useLocalStore = FALSE
    /\ remote = <<>>
    /\ storeData = <<>>
    /\ initialized = FALSE
    /\ file \in {NoFile, CorruptFile}
    /\ lastOp = Op("start")
    /\ probeCount = 0
    /\ chosen = "none"
    /\ latest = LatestOfNothing
    /\ preRestart = NoRestart
    /\ tasks = <<>>

NextLocal ==
    \/ InitLocalVectorStore
    \/ AddChunksLocal
    \/ QueryChunksLocal
    \/ GetStatsLocal
    \/ ClearStoreLocal
    \/ DeleteByLawLocal
    \/ Restart

SpecLocal == Init /\ [][NextLocal]_vars

(***************************************************************************)
(* The Chroma server, as the facade uses it.  A request may fail at any    *)
(* time (the server is down, or it rejects the request); the operators     *)
(* below give what a request that succeeds does.                           *)
(***************************************************************************)
\* the ids, embeddings, documents and metadatas addChunks sends for a chunk
ToChroma(c) ==
    [id |-> c.id, embedding |-> c.embedding, document |-> c.text,
     metadata |-> [law |-> c.metadata.law,
                   title |-> IF MetaGet(c.metadata, "title") = Undefined
                             THEN "" ELSE c.metadata.title,
                   article |-> c.metadata.article]]

\* the server takes a request only with distinct ids, at least one of them,
\* and vectors of the dimension of the collection
ChromaAccepts(entries, recs) ==
    /\ Len(recs) >= 1
    /\ \A i, j \in 1 .. Len(recs) : recs[i].id = recs[j].id => i = j
    /\ \A i, j \in 1 .. Len(recs) : Len(recs[i].embedding) = Len(recs[j].embedding)
    /\ \A i \in 1 .. Len(entries) : Len(entries[i].embedding) = Len(recs[1].embedding)

RECURSIVE ChromaUpsert(_, _)
ChromaUpsert(entries, recs) ==
    IF recs = <<>> THEN entries
    ELSE LET r == Head(recs)
             at == FindIndex(entries, r.id)
         IN  ChromaUpsert(IF at >= 1 THEN [entries EXCEPT ![at] = r]
                          ELSE Append(entries, r),
                          Tail(recs))

ChromaMatches(e, filter) ==
    filter.given => \A kv \in filter.where : MetaGet(e.metadata, kv[1]) = kv[2]

\* coll.query in a cosine space: the nResults nearest entries that pass
\* `where`, nearest first, each with its distance 1 - cosine
ChromaQuery(entries, queryEmbedding, nResults, filter) ==
    LET passing == SelectSeq(entries, LAMBDA e : ChromaMatches(e, filter))
        scored == [i \in 1 .. Len(passing) |->
                     [id |-> passing[i].id, document |-> passing[i].document,
                      metadata |-> passing[i].metadata,
                      score |-> CosineOfEqualLength(queryEmbedding,
                                                    passing[i].embedding)]]
        nearest == Slice0(SortByScore(scored), nResults)
    IN  [i \in 1 .. Len(nearest) |->
            [id |-> nearest[i].id, document |-> nearest[i].document,
             metadata |-> nearest[i].metadata,
             distance |-> [oneMinus |-> nearest[i].score]]]

ChromaAnswers(entries, queryEmbedding, nResults) ==
    /\ nResults >= 1
    /\ \A i \in 1 .. Len(entries) : Len(entries[i].embedding) = Len(queryEmbedding)

\* coll.delete({where: {law: lawCode}})
ChromaDelete(entries, lawCode) ==
    SelectSeq(entries, LAMBDA e : e.metadata.law # lawCode)

(***************************************************************************)
(* The facade: vectorStore.ts.  A call runs to its end before the next one *)
(* starts; every request to the server succeeds or fails.                  *)
(***************************************************************************)
MaxProbes == 2
MaxFacadeBatch == 1

Bump(n) == IF n < MaxProbes THEN n + 1 ELSE MaxProbes

FirstChoice(realization) == IF chosen = "none" THEN realization ELSE chosen

FacadeChunks == {c \in Catalogue : c.text \in {"plazo", "junta"}}
FacadeBatches == SeqsUpTo(FacadeChunks, MaxFacadeBatch)
FacadeTopKs == {1, DefaultTopK}
FacadeFilters == {NoFilter, Filter(TRUE, {<<"law", "LAU">>})}

\* the loop of queryChunks over the answer of the server
RetrievalResults(answer) ==
    LET usable == SelectSeq(answer, LAMBDA a : a.document # "" /\ a.id # "")
    IN  [i \in 1 .. Len(usable) |->
            [chunk |-> [id |-> usable[i].id, text |-> usable[i].document,
                        metadata |-> [law |-> usable[i].metadata.law,
                                      title |-> IF usable[i].metadata.title # ""
                                                THEN usable[i].metadata.title
                                                ELSE Undefined,
                                      article |-> usable[i].metadata.article]],
             score |-> usable[i].distance.oneMinus]]

\* initVectorStore, the try block: heartbeat and getOrCreateCollection succeed
ProbeSucceeds ==
    /\ client' = TRUE
    /\ collection' = TRUE
    /\ useLocalStore' = FALSE
    /\ probeCount' = Bump(probeCount)
    /\ chosen' = FirstChoice("remote")

\* initVectorStore, the catch block: the local store takes over
ProbeFails(name, err) ==
    /\ client' = TRUE
    /\ useLocalStore' = TRUE
    /\ probeCount' = Bump(probeCount)
    /\ chosen' = FirstChoice("local")
    /\ storeData' = LoadStore(file)
    /\ initialized' = TRUE
    /\ lastOp' = [Op(name) EXCEPT !.err = err, !.probed = TRUE,
                                  !.served = IF err = "none" THEN "local" ELSE "none"]
    /\ UNCHANGED <<collection, file, latest, preRestart>>

InitVectorStore ==
    /\ \/ /\ ProbeSucceeds
          /\ lastOp' = [Op("initVectorStore") EXCEPT !.served = "remote",
                                                     !.probed = TRUE]
          /\ UNCHANGED <<storeData, initialized, file, latest, preRestart>>
       \/ ProbeFails("initVectorStore", "none")
    /\ UNCHANGED <<remote, tasks>>

\* getCollection returns the collection: the one it holds, or the one of an
\* initialization that reached the server
GetCollection(probed) ==
    /\ ~useLocalStore
    /\ probed = ~collection
    /\ IF probed THEN ProbeSucceeds
       ELSE UNCHANGED <<client, collection, useLocalStore, probeCount, chosen>>

\* getCollection throws: it holds no collection, the initialization fell
\* back to the local store, and collection is still null
GetCollectionThrows(name) ==
    /\ ~useLocalStore
    /\ ~collection
    /\ ProbeFails(name, "Failed to initialize vector store")
    /\ UNCHANGED <<remote, tasks>>

LocalUnchanged == UNCHANGED <<storeData, initialized, file, latest, preRestart>>

RequestError == "request to Chroma failed"

AddChunks ==
    \E chunks \in FacadeBatches :
        \/ /\ useLocalStore
           /\ LocalAdd("addChunks", chunks)
           /\ UNCHANGED <<facadeVars, probeCount, chosen, tasks>>
        \/ GetCollectionThrows("addChunks")
        \/ \E probed \in BOOLEAN, ok \in BOOLEAN :
              LET recs == [i \in 1 .. Len(chunks) |-> ToChroma(chunks[i])]
              IN  /\ GetCollection(probed)
                  /\ ok => ChromaAccepts(remote, recs)
                  /\ remote' = IF ok THEN ChromaUpsert(remote, recs) ELSE remote
                  /\ lastOp' = [Op("addChunks") EXCEPT
                                   !.batch = chunks, !.served = "remote",
                                   !.probed = probed,
                                   !.err = IF ok THEN "none" ELSE RequestError,
                                   !.again = ok /\ SameAdd("addChunks", chunks)]
                  /\ LocalUnchanged
                  /\ UNCHANGED tasks

QueryChunks ==
    \E queryEmbedding \in {<<1, 0>>}, topK \in FacadeTopKs, filter \in FacadeFilters :
        \/ /\ useLocalStore
           /\ LocalQuery("queryChunks", queryEmbedding, topK, filter)
           /\ UNCHANGED <<facadeVars, probeCount, chosen, tasks>>
        \/ GetCollectionThrows("queryChunks")
        \/ \E probed \in BOOLEAN, ok \in BOOLEAN :
              /\ GetCollection(probed)
              /\ ok => ChromaAnswers(remote, queryEmbedding, topK)
              /\ lastOp' = [Op("queryChunks") EXCEPT
                               !.query = queryEmbedding, !.topK = topK,
                               !.filter = filter, !.served = "remote",
                               !.probed = probed,
                               !.err = IF ok THEN "none" ELSE RequestError,
                               !.result = IF ok
                                          THEN RetrievalResults(
                                                 ChromaQuery(remote, queryEmbedding,
                                                             topK, filter))
                                          ELSE <<>>]
              /\ LocalUnchanged
              /\ UNCHANGED <<remote, tasks>>

DeleteByLaw ==
    \E lawCode \in Laws :
        \/ /\ useLocalStore
           /\ LocalDelete("deleteByLaw", lawCode)
           /\ UNCHANGED <<facadeVars, probeCount, chosen, tasks>>
        \/ GetCollectionThrows("deleteByLaw")
        \/ \E probed \in BOOLEAN, ok \in BOOLEAN :
              /\ GetCollection(probed)
              /\ remote' = IF ok THEN ChromaDelete(remote, lawCode) ELSE remote
              /\ lastOp' = [Op("deleteByLaw") EXCEPT
                               !.law = lawCode, !.served = "remote",
                               !.probed = probed,
                               !.err = IF ok THEN "none" ELSE RequestError]
              /\ LocalUnchanged
              /\ UNCHANGED tasks

GetStats ==
    \/ /\ useLocalStore
       /\ LocalStats("getStats")
       /\ UNCHANGED <<facadeVars, probeCount, chosen, tasks>>
    \/ GetCollectionThrows("getStats")
    \/ \E probed \in BOOLEAN, ok \in BOOLEAN :
          /\ GetCollection(probed)
          /\ lastOp' = [Op("getStats") EXCEPT
                           !.served = "remote", !.probed = probed,
                           !.err = IF ok THEN "none" ELSE RequestError,
                           !.count = IF ok THEN Len(remote) ELSE -1]
          /\ LocalUnchanged
          /\ UNCHANGED <<remote, tasks>>

\* client.deleteCollection, and collection = null when it returns
DeleteCollection(name, ok, probed) ==
    /\ remote' = IF ok THEN <<>> ELSE remote
    /\ collection' = IF ok THEN FALSE ELSE (collection \/ probed)

ClearCollection ==
    \/ /\ useLocalStore
       /\ LocalClear("clearCollection")
       /\ UNCHANGED <<facadeVars, probeCount, chosen, tasks>>
    \/ \E ok \in BOOLEAN :
          /\ ~useLocalStore
          /\ client
          /\ DeleteCollection("clearCollection", ok, FALSE)
          /\ lastOp' = [Op("clearCollection") EXCEPT
                           !.served = "remote",
                           !.err = IF ok THEN "none" ELSE RequestError]
          /\ LocalUnchanged
          /\ UNCHANGED <<client, useLocalStore, probeCount, chosen, tasks>>
    \/ \E ok \in BOOLEAN :
          \* no client yet: initVectorStore reaches the server
          /\ ~useLocalStore
          /\ ~client
          /\ client' = TRUE
          /\ useLocalStore' = FALSE
          /\ probeCount' = Bump(probeCount)
          /\ chosen' = FirstChoice("remote")
          /\ DeleteCollection("clearCollection", ok, TRUE)
          /\ lastOp' = [Op("clearCollection") EXCEPT
                           !.served = "remote", !.probed = TRUE,
                           !.err = IF ok THEN "none" ELSE RequestError]
          /\ LocalUnchanged
          /\ UNCHANGED tasks
    \/ \E ok \in BOOLEAN :
          \* no client yet: initVectorStore falls back, and the client it
          \* created is asked to delete the collection all the same
          /\ ~useLocalStore
          /\ ~client
          /\ client' = TRUE
          /\ useLocalStore' = TRUE
          /\ probeCount' = Bump(probeCount)
          /\ chosen' = FirstChoice("local")
          /\ storeData' = LoadStore(file)
          /\ initialized' = TRUE
          /\ DeleteCollection("clearCollection", ok, FALSE)
          /\ lastOp' = [Op("clearCollection") EXCEPT
                           !.served = "remote", !.probed = TRUE,
                           !.err = IF ok THEN "none" ELSE RequestError]
          /\ UNCHANGED <<file, latest, preRestart, tasks>>

Next ==
    \/ InitVectorStore
    \/ AddChunks
    \/ QueryChunks
    \/ DeleteByLaw
    \/ GetStats
    \/ ClearCollection
    \/ Restart

Spec == Init /\ [][Next]_vars

(***************************************************************************)
(* Concurrent calls of addChunksLocal and queryChunksLocal.  A call runs   *)
(* until its next await; the only await of these functions is the one on   *)
(* initLocalVectorStore, taken when the store is not loaded yet.  The loop *)
(* of addChunksLocal and saveStore contain no await.                       *)
(***************************************************************************)
\* tasks 1 .. NReaders issue the searches, one more task issues the upserts
NReaders == 2
MaxConcBatch == 2

Readers == 1 .. NReaders
Writer == NReaders + 1
TaskIds == {Writer} \cup Readers

IdleTask ==
    [kind |-> "idle", pc |-> "idle", batch |-> <<>>, rest |-> <<>>,
     query |-> <<>>, topK |-> 0, filter |-> NoFilter, allowed |-> {}]

ConcChunks == {c \in Catalogue : c.text \in {"plazo", "prorroga", "cuotas"}}
ConcBatches == SeqsUpTo(ConcChunks, MaxConcBatch) \ {<<>>}

\* the loop of addChunksLocal run until it ends or awaits, splitting between
\* the splice and the push of an entry: what an await inside the loop would do
RunLoopAwaitingInside(chunks, batch) ==
    LET existingIndex == FindIndex(chunks, Head(batch).id)
    IN  IF existingIndex >= 1
        THEN [chunks |-> Splice(chunks, existingIndex), rest |-> batch]
        ELSE [chunks |-> UpsertOne(chunks, Head(batch)), rest |-> Tail(batch)]

\* the loop of addChunksLocal run until it ends or awaits: it has no await,
\* so it ends
RunLoop(chunks, batch) ==
    [chunks |-> UpsertLoop(chunks, batch), rest |-> <<>>]

\* the readers that have been called and have not computed their result yet
Waiting(t) == tasks.calls[t].kind = "query" /\ tasks.calls[t].pc = "awaitInit"

\* addChunksLocal from the loop on, for the task t working on `chunks`;
\* when it returns, the searches in flight may see what it leaves
WriterRuns(t, chunks, batch, rest) ==
    LET run == RunLoop(chunks, rest)
        after == UpsertLoop(tasks.committed, batch)
    IN  /\ storeData' = run.chunks
        /\ IF run.rest = <<>>
           THEN /\ file' = SaveStore(run.chunks)
                /\ lastOp' = [Op("addChunksLocal") EXCEPT !.batch = batch,
                                                          !.served = "local"]
                /\ tasks' =
                     [calls |->
                        [u \in TaskIds |->
                           IF u = t THEN IdleTask
                           ELSE IF Waiting(u)
                           THEN [tasks.calls[u] EXCEPT !.allowed = @ \cup {after}]
                           ELSE tasks.calls[u]],
                      committed |-> after]
           ELSE /\ file' = file
                /\ lastOp' = lastOp
                /\ tasks' = [tasks EXCEPT !.calls[t] =
                                [IdleTask EXCEPT !.kind = "add", !.pc = "inLoop",
                                                 !.batch = batch, !.rest = run.rest]]

\* queryChunksLocal after the await, for the task t: it returns
ReaderRuns(t, call) ==
    /\ lastOp' = [Op("queryChunksLocal") EXCEPT
                     !.query = call.query, !.topK = call.topK,
                     !.filter = call.filter, !.served = "local",
                     !.view = storeData', !.allowed = call.allowed,
                     !.result = TopResults(storeData', call.query, call.topK,
                                           call.filter)]
    /\ tasks' = [tasks EXCEPT !.calls[t] = IdleTask]

CallAddChunksLocal ==
    \E t \in {Writer}, chunks \in ConcBatches :
        /\ tasks.calls[t].kind = "idle"
        /\ IF initialized
           THEN /\ WriterRuns(t, storeData, chunks, chunks)
                /\ UNCHANGED initialized
           ELSE /\ storeData' = LoadStore(file)
                /\ initialized' = TRUE
                /\ tasks' = [tasks EXCEPT !.calls[t] =
                                [IdleTask EXCEPT !.kind = "add", !.pc = "awaitInit",
                                                 !.batch = chunks, !.rest = chunks]]
                /\ UNCHANGED <<file, lastOp>>
        /\ UNCHANGED <<facadeVars, probeCount, chosen, latest, preRestart>>

ResumeAddChunksLocal ==
    \E t \in {Writer} :
        /\ tasks.calls[t].kind = "add"
        /\ tasks.calls[t].pc \in {"awaitInit", "inLoop"}
        /\ WriterRuns(t, storeData, tasks.calls[t].batch, tasks.calls[t].rest)
        /\ UNCHANGED <<facadeVars, initialized, probeCount, chosen, latest,
                       preRestart>>

CallQueryChunksLocal ==
    \E t \in Readers, queryEmbedding \in {<<1, 0>>}, topK \in {1, DefaultTopK} :
        LET call == [IdleTask EXCEPT !.kind = "query", !.pc = "awaitInit",
                                     !.query = queryEmbedding, !.topK = topK,
                                     !.allowed = {tasks.committed}]
        IN  /\ tasks.calls[t].kind = "idle"
            /\ IF initialized
               THEN /\ UNCHANGED <<storeData, initialized>>
                    /\ ReaderRuns(t, call)
               ELSE /\ storeData' = LoadStore(file)
                    /\ initialized' = TRUE
                    /\ tasks' = [tasks EXCEPT !.calls[t] = call]
                    /\ UNCHANGED lastOp
            /\ UNCHANGED <<facadeVars, file, probeCount, chosen, latest, preRestart>>

ResumeQueryChunksLocal ==
    \E t \in Readers :
        /\ Waiting(t)
        /\ UNCHANGED storeData
        /\ ReaderRuns(t, tasks.calls[t])
        /\ UNCHANGED <<facadeVars, initialized, file, probeCount, chosen, latest,
                       preRestart>>

\* the process restarts: the calls in flight are gone with it
RestartConc ==
    /\ storeData' = <<>>
    /\ initialized' = FALSE
    /\ tasks' = [calls |-> [t \in TaskIds |-> IdleTask],
                 committed |-> tasks.committed]
    /\ lastOp' = Op("restart")
    /\ UNCHANGED <<facadeVars, file, probeCount, chosen, latest, preRestart>>

InitConc ==
    /\ client = FALSE
    /\ collection = FALSE
    /\ useLocalStore = FALSE
    /\ remote = <<>>
    /\ storeData = <<>>
    /\ initialized = FALSE
    /\ file \in {NoFile, CorruptFile}
    /\ lastOp = Op("start")
    /\ probeCount = 0
    /\ chosen = "none"
    /\ latest = LatestOfNothing
    /\ preRestart = NoRestart
    /\ tasks = [calls |-> [t \in TaskIds |-> IdleTask], committed |-> <<>>]

NextConc ==
    \/ CallAddChunksLocal
    \/ ResumeAddChunksLocal
    \/ CallQueryChunksLocal
    \/ ResumeQueryChunksLocal
    \/ RestartConc

SpecConc == InitConc /\ [][NextConc]_vars

(***************************************************************************)
(* Properties of the local store, checked under SpecLocal.                 *)
(***************************************************************************)
\* what stats() and search would see now: the chunks in memory, or the
\* chunks of the file when the store is not loaded yet
Visible == Ensured(storeData, initialized, file)

IsLocalMutation(o) ==
    o.op \in {"addChunksLocal", "deleteByLawLocal", "clearStoreLocal"}

StoredIds(chunks) == {chunks[i].id : i \in 1 .. Len(chunks)}

Min(a, b) == IF a < b THEN a ELSE b

\* C3: an upsert that repeats the upsert before it, with the same list,
\* leaves the index as it found it: the same count and, for every query
\* vector, top_k and filter, the same results with the same scores in the
\* same order.
C3_UpsertTwiceIsUpsertOnce ==
    [][ (lastOp'.op = "addChunksLocal" /\ lastOp'.again /\ lastOp'.err = "none")
        => /\ Len(storeData') = Len(storeData)
           /\ \A q \in QueryVectors, k \in TopKs, f \in Filters :
                TopResults(storeData', q, k, f) = TopResults(storeData, q, k, f)
      ]_vars

\* a second upsert of a list of two entries, one of which replaced an entry
\* that was stored before
C3_Witness ==
    /\ lastOp.op = "addChunksLocal"
    /\ lastOp.again
    /\ Len(lastOp.batch) = 2
    /\ Len(storeData) = 3

\* C4: no two stored entries share an id, each stored id carries the entry
\* of the most recent upsert that contained it, an id is stored exactly when
\* an upsert put it there and no delete or clear removed it since, and
\* stats().count is the number of distinct ids stored.
C4_OneEntryPerId ==
    /\ \A i, j \in 1 .. Len(Visible) : Visible[i].id = Visible[j].id => i = j
    /\ \A i \in 1 .. Len(Visible) : Visible[i] = latest[Visible[i].id]
    /\ \A id \in Ids : latest[id] # None => id \in StoredIds(Visible)
    /\ lastOp.op = "getStatsLocal"
         => lastOp.count = Cardinality(StoredIds(storeData))

\* an upsert whose list holds the same id twice, with different entries,
\* into a store that holds other ids
C4_Witness ==
    /\ lastOp.op = "addChunksLocal"
    /\ Len(lastOp.batch) = 2
    /\ lastOp.batch[1].id = lastOp.batch[2].id
    /\ lastOp.batch[1] # lastOp.batch[2]
    /\ Len(storeData) = 2
    /\ storeData[2] = lastOp.batch[2]

\* C5: when upsert, delete_by_group or clear has returned, the file exists,
\* parses, and holds exactly the entries in memory, in the same order.
C5_FileHoldsMemoryOnReturn ==
    (IsLocalMutation(lastOp) /\ lastOp.err = "none")
        => /\ file.exists
           /\ file.parses
           /\ Len(file.chunks) = Len(storeData)
           /\ \A i \in 1 .. Len(storeData) :
                /\ file.chunks[i].id = storeData[i].id
                /\ file.chunks[i].text = storeData[i].text
                /\ file.chunks[i].embedding = storeData[i].embedding
                /\ \A k \in MetaKeys :
                      MetaGet(file.chunks[i].metadata, k)
                          = MetaGet(storeData[i].metadata, k)

\* a delete_by_group that left two entries behind
C5_Witness ==
    /\ lastOp.op = "deleteByLawLocal"
    /\ Len(storeData) = 2
    /\ Len(file.chunks) = 2

\* C6: after a restart, with no mutation since, stats() and every search
\* return what the same call would have returned just before the restart.
C6_ReloadRoundTrip ==
    preRestart.set
        => /\ lastOp.op = "queryChunksLocal"
                => lastOp.result = TopResults(preRestart.chunks, lastOp.query,
                                              lastOp.topK, lastOp.filter)
           /\ lastOp.op = "getStatsLocal"
                => lastOp.count = Len(preRestart.chunks)

\* a search after a restart of a store of three entries, returning two
C6_Witness ==
    /\ preRestart.set
    /\ Len(preRestart.chunks) = 3
    /\ lastOp.op = "queryChunksLocal"
    /\ Len(lastOp.result) = 2
    /\ lastOp.result[1].score = OneScore

\* the stored entries a filter lets through (all of them without a filter)
Matching(chunks, filter) ==
    {i \in 1 .. Len(chunks) :
        filter.given => \A kv \in filter.where :
                            MetaGet(chunks[i].metadata, kv[1]) = kv[2]}

\* result r is the stored entry at position i, scored against the query
IsResultOf(r, chunks, i, queryEmbedding) ==
    /\ r.chunk.id = chunks[i].id
    /\ r.chunk.text = chunks[i].text
    /\ r.chunk.metadata = chunks[i].metadata
    /\ r.score = LocalCosineSimilarity(queryEmbedding, chunks[i].embedding)

\* C8: a search returns at most top_k results, in non-increasing score
\* order; they are min(top_k, number of matching entries) distinct
\* filter-passing stored entries, each with its cosine similarity, and no
\* entry left out scores higher than an entry returned.
C8_TopKSortedDescending ==
    lastOp.op = "queryChunksLocal"
        => LET r == lastOp.result
               m == Matching(storeData, lastOp.filter)
           IN  /\ Len(r) <= lastOp.topK
               /\ Len(r) = Min(lastOp.topK, Cardinality(m))
               /\ \A i \in 1 .. (Len(r) - 1) : ~ScoreLess(r[i].score, r[i + 1].score)
               /\ \A i \in 1 .. Len(r) :
                     \E n \in m : IsResultOf(r[i], storeData, n, lastOp.query)
               /\ \A i, j \in 1 .. Len(r) : r[i].chunk.id = r[j].chunk.id => i = j
               /\ \A n \in m :
                     (\A i \in 1 .. Len(r) : r[i].chunk.id # storeData[n].id)
                        => \A i \in 1 .. Len(r) :
                              ~ScoreLess(r[i].score,
                                         LocalCosineSimilarity(lastOp.query,
                                                               storeData[n].embedding))

\* a search with top_k = 2 over three entries that returns two results of
\* different scores
C8_Witness ==
    /\ lastOp.op = "queryChunksLocal"
    /\ lastOp.topK = 2
    /\ Len(storeData) = 3
    /\ Len(lastOp.result) = 2
    /\ ScoreLess(lastOp.result[2].score, lastOp.result[1].score)

\* C9: with a filter, every result carries the filter's value on every key
\* of the filter, and the filter is applied before the cut: the results are
\* min(top_k, number of matching entries) many, and no matching entry left
\* out scores higher than a result.
C9_FilterBeforeRanking ==
    (lastOp.op = "queryChunksLocal" /\ lastOp.filter.given)
        => LET r == lastOp.result
               m == Matching(storeData, lastOp.filter)
           IN  /\ \A i \in 1 .. Len(r) : \A kv \in lastOp.filter.where :
                     MetaGet(r[i].chunk.metadata, kv[1]) = kv[2]
               /\ Len(r) = Min(lastOp.topK, Cardinality(m))
               /\ \A n \in m :
                     \/ \E i \in 1 .. Len(r) : r[i].chunk.id = storeData[n].id
                     \/ \A i \in 1 .. Len(r) :
                           ~ScoreLess(r[i].score,
                                      LocalCosineSimilarity(lastOp.query,
                                                            storeData[n].embedding))

\* a filtered search with top_k = 1 that returns a matching entry although
\* an entry that does not match scores higher
C9_Witness ==
    /\ lastOp.op = "queryChunksLocal"
    /\ lastOp.filter.given
    /\ lastOp.filter.where # {}
    /\ lastOp.topK = 1
    /\ Len(lastOp.result) = 1
    /\ \E n \in 1 .. Len(storeData) :
          /\ n \notin Matching(storeData, lastOp.filter)
          /\ ScoreLess(lastOp.result[1].score,
                       LocalCosineSimilarity(lastOp.query, storeData[n].embedding))

\* C10: a similarity over two vectors of unequal length fails with a
\* dimension-mismatch error: the exported cosineSimilarity throws, and a
\* local search whose query vector is not as long as the vector of an entry
\* it scores throws too.
C10_UnequalLengthsFail ==
    /\ \A a, b \in QueryVectors : Len(a) # Len(b) => CosineSimilarity(a, b).threw
    /\ (/\ lastOp.op = "queryChunksLocal"
        /\ \E n \in Matching(storeData, lastOp.filter) :
              Len(storeData[n].embedding) # Len(lastOp.query))
          => lastOp.err # "none"

(***************************************************************************)
(* Properties of the facade, checked under Spec.                           *)
(***************************************************************************)
\* C1: once a realization is chosen, no call sends another heartbeat, and
\* every call that follows is served by the realization chosen.
C1_RealizationFixedNoReprobe ==
    /\ probeCount <= 1
    /\ (chosen # "none" /\ ~lastOp.probed /\ lastOp.served # "none")
          => lastOp.served = chosen

\* C2: when the first initialization, explicit or lazy, does not reach the
\* server, the call that ran it and the calls after it return and are served
\* by the local store, and no call fails for want of an index.
C2_FallbackIsTransparent ==
    /\ lastOp.err # "Failed to initialize vector store"
    /\ (chosen = "local" /\ probeCount = 1 /\ lastOp.op \notin {"start", "restart"})
          => (lastOp.err = "none" /\ lastOp.served = "local")

(***************************************************************************)
(* Properties of concurrent calls, checked under SpecConc.                 *)
(***************************************************************************)
EntriesOf(chunks, id) == {chunks[i] : i \in {j \in 1 .. Len(chunks) : chunks[j].id = id}}

\* C7: a search that ran next to upserts saw the entries as one of the
\* upserts left them (or as they were when it was called): for each id it
\* saw what that state holds for the id, so never two entries of an id and
\* never an id missing that the states before and after an upsert both hold;
\* and its results are the results over that state.
C7_SearchSeesSnapshot ==
    (lastOp.op = "queryChunksLocal" /\ lastOp.allowed # {})
        => \E snapshot \in lastOp.allowed :
              /\ \A id \in Ids :
                    /\ EntriesOf(lastOp.view, id) = EntriesOf(snapshot, id)
                    /\ Cardinality(EntriesOf(lastOp.view, id)) <= 1
              /\ lastOp.result = TopResults(snapshot, lastOp.query, lastOp.topK,
                                            lastOp.filter)

\* a search called before an upsert that replaced a stored entry, and
\* returning after it: it saw the new entry
C7_Witness ==
    /\ lastOp.op = "queryChunksLocal"
    /\ Cardinality(lastOp.allowed) = 2
    /\ \E old \in lastOp.allowed, i \in 1 .. Len(lastOp.view) :
          \E j \in 1 .. Len(old) :
              /\ old[j].id = lastOp.view[i].id
              /\ old[j] # lastOp.view[i]

(***************************************************************************)
(* Properties of the scores of a search, checked under SpecLocal.          *)
(***************************************************************************)
\* 0 <= s <= 1
InUnitInterval(s) == s.sgn >= 0 /\ s.p <= s.q

\* C11: every result a search returns has a score in [0, 1], whatever the
\* stored vectors and the query vector are.
C11_ScoresInUnitInterval ==
    (lastOp.op = "queryChunksLocal" /\ lastOp.err = "none")
        => \A i \in 1 .. Len(lastOp.result) : InUnitInterval(lastOp.result[i].score)

(***************************************************************************)
(* Strings.  A text is a string of the model; the operators below are the  *)
(* JavaScript string methods that reranker.ts and the chunker use.         *)
(***************************************************************************)
indexVars == <<client, collection, useLocalStore, remote, storeData, initialized,
               file, probeCount, chosen, latest, preRestart, tasks>>

Char(s, i) == SubSeq(s, i, i)

UpperCaseLetters == "ABCDEFGHIJKLMNOPQRSTUVWXYZÁÉÍÓÚÜÑ"
LowerCaseLetters == "abcdefghijklmnopqrstuvwxyzáéíóúüñ"

LowerChar(c) ==
    LET at == {i \in 1 .. Len(UpperCaseLetters) : Char(UpperCaseLetters, i) = c}
    IN  IF at = {} THEN c ELSE Char(LowerCaseLetters, CHOOSE i \in at : TRUE)

\* the pieces, one after the other (halved, to keep the evaluation shallow)
RECURSIVE Join(_)
Join(pieces) ==
    IF Len(pieces) = 0 THEN ""
    ELSE IF Len(pieces) = 1 THEN pieces[1]
    ELSE Join(SubSeq(pieces, 1, Len(pieces) \div 2))
         \o Join(SubSeq(pieces, Len(pieces) \div 2 + 1, Len(pieces)))

\* String.prototype.toLowerCase
ToLowerCase(s) == Join([i \in 1 .. Len(s) |-> LowerChar(Char(s, i))])

\* String.prototype.includes
Includes(s, part) ==
    \E i \in 1 .. (Len(s) - Len(part) + 1) : SubSeq(s, i, i + Len(part) - 1) = part

\* \s of a regular expression (the white space the texts of the model use)
IsSpace(c) == c \in {" ", "\n", "\t", "\r"}

\* s.split(/\s+/): the pieces between runs of white space; a text that
\* starts or ends with white space gives an empty first or last piece
RECURSIVE SplitFrom(_, _, _, _)
SplitFrom(s, i, piece, pieces) ==
    IF i > Len(s) THEN Append(pieces, piece)
    ELSE IF IsSpace(Char(s, i))
         THEN IF i > 1 /\ IsSpace(Char(s, i - 1))
              THEN SplitFrom(s, i + 1, piece, pieces)
              ELSE SplitFrom(s, i + 1, "", Append(pieces, piece))
         ELSE SplitFrom(s, i + 1, piece \o Char(s, i), pieces)

SplitOnSpace(s) == SplitFrom(s, 1, "", <<>>)

(***************************************************************************)
(* reranker.ts.  Scores and boosts are kept exactly, in hundredths         *)
(* (0.15 is 15); floating-point rounding is not modelled.                  *)
(***************************************************************************)
LegalBoost(article, law, boost) == [article |-> article, law |-> law, boost |-> boost]

\* LEGAL_TERM_BOOST
LEGAL_TERM_BOOST ==
      "subarrendar" :> <<LegalBoost("Artículo 8", "LAU", 15)>> @@
      "subarriendo" :> <<LegalBoost("Artículo 8", "LAU", 15)>> @@
      "subarrendamiento" :> <<LegalBoost("Artículo 8", "LAU", 15)>> @@
      "preaviso" :> <<LegalBoost("Artículo 10", "LAU", 12)>> @@
      "renovación" :> <<LegalBoost("Artículo 10", "LAU", 10)>> @@
      "prórroga" :> <<LegalBoost("Artículo 10", "LAU", 12)>> @@
      "duración" :> <<LegalBoost("Artículo 9", "LAU", 10)>> @@
      "reparaciones" :> <<LegalBoost("Artículo 21", "LAU", 12),
                         LegalBoost("Artículo 22", "LAU", 10)>> @@
      "conservación" :> <<LegalBoost("Artículo 21", "LAU", 12)>> @@
      "obras" :> <<LegalBoost("Artículo 22", "LAU", 12)>> @@
      "coeficiente" :> <<LegalBoost("Artículo 5", "LPH", 12)>> @@
      "coeficientes" :> <<LegalBoost("Artículo 5", "LPH", 12)>> @@
      "cuota" :> <<LegalBoost("Artículo 5", "LPH", 10)>> @@
      "participación" :> <<LegalBoost("Artículo 5", "LPH", 10)>> @@
      "comunidad" :> <<LegalBoost("Artículo 9", "LPH", 8)>> @@
      "gastos" :> <<LegalBoost("Artículo 9", "LPH", 8)>>

\* the lower-case property names every object literal inherits from
\* Object.prototype: LEGAL_TERM_BOOST[term] is then a function or an object
\* that is not undefined and that for ... of cannot iterate
InheritedKeys == {"constructor", "__proto__"}

\* LEGAL_TERM_BOOST[term]
LegalBoostsOf(term) ==
    IF term \in DOMAIN LEGAL_TERM_BOOST
    THEN [defined |-> TRUE, iterable |-> TRUE, entries |-> LEGAL_TERM_BOOST[term]]
    ELSE IF term \in InheritedKeys
         THEN [defined |-> TRUE, iterable |-> FALSE, entries |-> <<>>]
         ELSE [defined |-> FALSE, iterable |-> FALSE, entries |-> <<>>]

stopwords ==
    { "el", "la", "los", "las", "un", "una", "unos", "unas",
      "de", "del", "al", "a", "en", "con", "por", "para",
      "que", "qué", "cual", "cuál", "como", "cómo",
      "es", "son", "está", "están", "hay",
      "se", "su", "sus", "mi", "mis", "tu", "tus",
      "y", "o", "pero", "si", "no",
      "puedo", "puede", "debo", "debe", "necesito",
      "cuánto", "cuántos", "cuánta", "cuántas" }

\* query.replace(/[¿?¡!.,;:()]/g, ' ')
ReplacePunctuation(s) ==
    Join([i \in 1 .. Len(s) |->
            IF Char(s, i) \in {"¿", "?", "¡", "!", ".", ",", ";", ":", "(", ")"}
            THEN " " ELSE Char(s, i)])

IsKeyTerm(term) == Len(term) > 2 /\ term \notin stopwords

extractKeyTerms(query) ==
    SelectSeq(SplitOnSpace(ReplacePunctuation(ToLowerCase(query))), IsKeyTerm)

\* types.ts RetrievalResult (the metadata fields the reranker reads)
RetrievalResult(id, law, article, articleTitle, text, score) ==
    [chunk |-> [id |-> id, text |-> text,
                metadata |-> [law |-> law, article |-> article,
                              articleTitle |-> articleTitle]],
     score |-> score]

\* for (const legalBoost of legalBoosts) ...
RECURSIVE LegalBoostSum(_, _)
LegalBoostSum(result, legalBoosts) ==
    IF legalBoosts = <<>> THEN 0
    ELSE LET legalBoost == Head(legalBoosts)
             articleTitle == result.chunk.metadata.articleTitle
             law == result.chunk.metadata.law
         IN  (IF Includes(articleTitle, legalBoost.article) /\ law = legalBoost.law
              THEN legalBoost.boost ELSE 0)
             + LegalBoostSum(result, Tail(legalBoosts))

\* the body of for (const term of queryTerms)
TermBoost(result, term) ==
    (IF Includes(ToLowerCase(result.chunk.text), term) THEN 10 ELSE 0)
    + (IF Includes(ToLowerCase(result.chunk.metadata.articleTitle), term) THEN 15 ELSE 0)
    + LegalBoostSum(result, LegalBoostsOf(term).entries)

RECURSIVE Boost(_, _)
Boost(result, queryTerms) ==
    IF queryTerms = <<>> THEN 0
    ELSE TermBoost(result, Head(queryTerms)) + Boost(result, Tail(queryTerms))

\* scored.sort((a, b) => b.score - a.score): a stable sort
InsertDescending(sorted, r) ==
    LET before == {i \in 1 .. Len(sorted) : sorted[i].score >= r.score}
        n == Cardinality(before)
    IN  SubSeq(sorted, 1, n) \o <<r>> \o SubSeq(sorted, n + 1, Len(sorted))

RECURSIVE SortDescendingFrom(_, _, _)
SortDescendingFrom(sorted, scored, i) ==
    IF i > Len(scored) THEN sorted
    ELSE SortDescendingFrom(InsertDescending(sorted, scored[i]), scored, i + 1)

SortDescending(scored) == SortDescendingFrom(<<>>, scored, 1)

Returned(value) == [threw |-> FALSE, message |-> "", value |-> value]
Thrown(message) == [threw |-> TRUE, message |-> message, value |-> <<>>]

rerank(results, query) ==
    LET queryTerms == extractKeyTerms(query)
        notIterable == \E k \in 1 .. Len(queryTerms) :
                          /\ LegalBoostsOf(queryTerms[k]).defined
                          /\ ~LegalBoostsOf(queryTerms[k]).iterable
        scored == [i \in 1 .. Len(results) |->
                      [results[i] EXCEPT
                          !.score = Min(100, @ + Boost(results[i], queryTerms))]]
    IN  IF results # <<>> /\ notIterable
        THEN Thrown("TypeError: legalBoosts is not iterable")
        ELSE Returned(SortDescending(scored))

AtLeastThreshold(r, threshold) == r.score >= threshold
AboveThreshold(r, threshold) == r.score > threshold

filterByThresholdStrict(results, threshold) ==
    SelectSeq(results, LAMBDA r : AboveThreshold(r, threshold))

filterByThreshold(results, threshold) ==
    SelectSeq(results, LAMBDA r : AtLeastThreshold(r, threshold))

\* new Set(text.toLowerCase().split(/\s+/))
WordsOf(text) ==
    LET words == SplitOnSpace(ToLowerCase(text))
    IN  {words[i] : i \in 1 .. Len(words)}

\* intersection.size / union.size, as a fraction
textSimilarity(text1, text2) ==
    [num |-> Cardinality(WordsOf(text1) \cap WordsOf(text2)),
     den |-> Cardinality(WordsOf(text1) \cup WordsOf(text2))]

\* similarity > maxOverlap
Exceeds(similarity, maxOverlap) ==
    similarity.num * maxOverlap.den > maxOverlap.num * similarity.den

RECURSIVE DeduplicateFrom(_, _, _, _)
DeduplicateFrom(unique, results, i, maxOverlap) ==
    IF i > Len(results) THEN unique
    ELSE LET result == results[i]
             isDuplicate == \E k \in 1 .. Len(unique) :
                 Exceeds(textSimilarity(unique[k].chunk.text, result.chunk.text),
                         maxOverlap)
         IN  DeduplicateFrom(IF isDuplicate THEN unique ELSE Append(unique, result),
                             results, i + 1, maxOverlap)

deduplicateResults(results, maxOverlap) == DeduplicateFrom(<<>>, results, 1, maxOverlap)

(***************************************************************************)
(* The calls of reranker.ts.  The functions are pure: a call leaves the    *)
(* index alone, and lastOp records its arguments and its outcome.  As no   *)
(* call depends on the calls before it, a behaviour makes one call.        *)
(***************************************************************************)
MaxResults == 2

\* The candidates the callers may pass.  The first two have the same score;
\* the third names Artículo 8 in its heading without being it; the last
\* two have the words of the second, one of them all of its words.
Candidates4Rerank ==
    { RetrievalResult("LAU-art-8", "LAU", "Artículo 8", "Cesión y subarriendo.",
                      "no se podrá subarrendar", 60),
      RetrievalResult("LAU-art-9", "LAU", "Artículo 9", "Plazo mínimo.",
                      "duración pactada", 60),
      RetrievalResult("LAU-art-11", "LAU", "Artículo 11", "Remisión al Artículo 8.",
                      "el subarriendo parcial", 95),
      RetrievalResult("LPH-art-9", "LPH", "Artículo 9", "Gastos.",
                      "duración", 70),
      RetrievalResult("LAU-art-9-1", "LAU", "Artículo 9", "Plazo mínimo.",
                      "Duración  pactada", 40) }

ResultLists == SeqsUpTo(Candidates4Rerank, MaxResults)

Queries ==
    { "¿Puedo subarrendar?", "duración del SUBARRIENDO",
      "obras del constructor", "gastos, comunidad" }

\* ragConfig.similarityThreshold is 0.7 unless the environment sets it
Thresholds == {0, 60, 70, 100}

Fraction(num, den) == [num |-> num, den |-> den]
DefaultMaxOverlap == Fraction(4, 5)
MaxOverlaps == {Fraction(1, 2), DefaultMaxOverlap, Fraction(1, 1)}

NoCallYet == lastOp.op = "start"

PureCall(name, args, outcome) ==
    [op |-> name, args |-> args, threw |-> outcome.threw,
     message |-> outcome.message, out |-> outcome.value]

Rerank ==
    /\ NoCallYet
    /\ \E results \in ResultLists, query \in Queries :
        /\ lastOp' = PureCall("rerank", [results |-> results, query |-> query],
                              rerank(results, query))
        /\ UNCHANGED indexVars

FilterByThreshold ==
    /\ NoCallYet
    /\ \E results \in ResultLists, threshold \in Thresholds :
        /\ lastOp' = PureCall("filterByThreshold",
                              [results |-> results, threshold |-> threshold],
                              Returned(filterByThreshold(results, threshold)))
        /\ UNCHANGED indexVars

DeduplicateResults ==
    /\ NoCallYet
    /\ \E results \in ResultLists, maxOverlap \in MaxOverlaps :
        /\ lastOp' = PureCall("deduplicateResults",
                              [results |-> results, maxOverlap |-> maxOverlap],
                              Returned(deduplicateResults(results, maxOverlap)))
        /\ UNCHANGED indexVars

NextRerank ==
    \/ Rerank
    \/ FilterByThreshold
    \/ DeduplicateResults

SpecRerank == Init /\ [][NextRerank]_vars

(***************************************************************************)
(* Properties of the reranker, checked under SpecRerank.                   *)
(***************************************************************************)
\* similarity >= maxOverlap
AtLeast(similarity, maxOverlap) ==
    similarity.num * maxOverlap.den >= maxOverlap.num * similarity.den

\* C12: deduplicate never returns two results whose word-set Jaccard
\* similarity is at least max_overlap; two texts whose similarity equals
\* max_overlap are never both kept.
C12_NoTwoKeptAtOrAboveOverlap ==
    lastOp.op = "deduplicateResults"
        => \A i, j \in 1 .. Len(lastOp.out) :
              i < j => ~AtLeast(textSimilarity(lastOp.out[i].chunk.text,
                                               lastOp.out[j].chunk.text),
                                lastOp.args.maxOverlap)

\* out is results with some positions left out, the others in their order
IsSubsequence(out, results) ==
    \E f \in [1 .. Len(out) -> 1 .. Len(results)] :
        /\ \A j \in 1 .. Len(out) : out[j] = results[f[j]]
        /\ \A j, k \in 1 .. Len(out) : j < k => f[j] < f[k]

\* C13: filter_by_threshold(results, t) returns exactly the results whose
\* score is at least t (a score equal to t passes), in their original
\* order, nothing added and no score changed.
C13_ThresholdKeepsExactlyAtLeast ==
    lastOp.op = "filterByThreshold"
        => /\ ~lastOp.threw
           /\ IsSubsequence(lastOp.out, lastOp.args.results)
           /\ \A j \in 1 .. Len(lastOp.out) : lastOp.out[j].score >= lastOp.args.threshold
           /\ Len(lastOp.out)
                 = Cardinality({i \in 1 .. Len(lastOp.args.results) :
                                   lastOp.args.results[i].score >= lastOp.args.threshold})

\* a call that kept a result whose score is the threshold and dropped one
C13_Witness ==
    /\ lastOp.op = "filterByThreshold"
    /\ Len(lastOp.out) < Len(lastOp.args.results)
    /\ \E j \in 1 .. Len(lastOp.out) : lastOp.out[j].score = lastOp.args.threshold

\* C14: rerank returns the candidates it was given, none added and none
\* dropped, each with an adjusted score of at most 1.0, in non-increasing
\* order of adjusted score, candidates of equal adjusted score in their
\* input order.
C14_RerankKeepsCapsAndSorts ==
    lastOp.op = "rerank"
        => /\ ~lastOp.threw
           /\ Len(lastOp.out) = Len(lastOp.args.results)
           /\ \E f \in [1 .. Len(lastOp.out) -> 1 .. Len(lastOp.out)] :
                 /\ \A j, k \in 1 .. Len(lastOp.out) : j # k => f[j] # f[k]
                 /\ \A j \in 1 .. Len(lastOp.out) :
                       lastOp.out[j].chunk = lastOp.args.results[f[j]].chunk
                 /\ \A j, k \in 1 .. Len(lastOp.out) :
                       (j < k /\ lastOp.out[j].score = lastOp.out[k].score)
                           => f[j] < f[k]
           /\ \A j \in 1 .. Len(lastOp.out) : lastOp.out[j].score <= 100
           /\ \A j, k \in 1 .. Len(lastOp.out) :
                 j < k => lastOp.out[j].score >= lastOp.out[k].score

\* the boosts of the lexicon entries that name the law and the label
\* (metadata.article) of the candidate
RECURSIVE EntryBoostSum(_, _)
EntryBoostSum(result, entries) ==
    IF entries = <<>> THEN 0
    ELSE (IF /\ result.chunk.metadata.law = Head(entries).law
             /\ result.chunk.metadata.article = Head(entries).article
          THEN Head(entries).boost ELSE 0)
         + EntryBoostSum(result, Tail(entries))

\* the generic substring boosts of the terms, and the lexicon boosts of the
\* terms whose entry names the candidate
RECURSIVE ClaimedBoost(_, _)
ClaimedBoost(result, terms) ==
    IF terms = <<>> THEN 0
    ELSE (IF Includes(ToLowerCase(result.chunk.text), Head(terms)) THEN 10 ELSE 0)
         + (IF Includes(ToLowerCase(result.chunk.metadata.articleTitle), Head(terms))
            THEN 15 ELSE 0)
         + EntryBoostSum(result, LegalBoostsOf(Head(terms)).entries)
         + ClaimedBoost(result, Tail(terms))

\* C15: when the query has a lexicon term, a candidate whose law and label
\* are those of an entry of the term has its score raised by the entry's
\* boost, on top of the generic substring boosts and up to the cap of 1.0,
\* and a candidate that matches no entry is not raised by it.
C15_LexiconBoostByLawAndLabel ==
    (lastOp.op = "rerank" /\ ~lastOp.threw)
        => \A i \in 1 .. Len(lastOp.args.results) :
              \E j \in 1 .. Len(lastOp.out) :
                  /\ lastOp.out[j].chunk = lastOp.args.results[i].chunk
                  /\ lastOp.out[j].score
                        = Min(100, lastOp.args.results[i].score
                                     + ClaimedBoost(lastOp.args.results[i],
                                                    extractKeyTerms(lastOp.args.query)))

(***************************************************************************)
(* embedder.ts embedChunks.  The call is suspended at each request to the  *)
(* embeddings service and at each delay between two batches; `tasks` holds *)
(* the suspended call.  The service is the environment: it rejects a       *)
(* request, or answers it with data that holds, for each input, an         *)
(* embedding or nothing.                                                   *)
(***************************************************************************)
MaxChunks == 3
DefaultBatchSize == 100

LegalChunk(id, text, metadata) == [id |-> id, text |-> text, metadata |-> metadata]

ChunksToEmbed ==
    { LegalChunk("LAU-art-1", "plazo", [law |-> "LAU", article |-> "Articulo 1"]),
      LegalChunk("LAU-art-2", "prorroga", [law |-> "LAU", article |-> "Articulo 2"]) }

ChunkLists == SeqsUpTo(ChunksToEmbed, MaxChunks)
BatchSizes == {1, 2, DefaultBatchSize}

\* response.data[j]?.embedding is undefined
NoEmbedding == <<>>
Embeddings == {<<1, 0>>, NoEmbedding}

BatchAtOneMore(chunks, i, batchSize) ==
    SubSeq(chunks, i + 1, Min(Len(chunks), i + batchSize + 1))

\* chunks.slice(i, i + batchSize), i counted from 0
BatchAt(chunks, i, batchSize) == SubSeq(chunks, i + 1, Min(Len(chunks), i + batchSize))

\* the inner loop: the inputs of the batch that have an embedding are pushed
RECURSIVE PushEmbedded(_, _, _, _)
PushEmbedded(embeddedChunks, batch, data, j) ==
    IF j > Len(batch) THEN embeddedChunks
    ELSE PushEmbedded(IF data[j] # NoEmbedding
                      THEN Append(embeddedChunks,
                                  EmbeddedChunk(batch[j].id, batch[j].text, data[j],
                                                batch[j].metadata))
                      ELSE embeddedChunks,
                      batch, data, j + 1)

EmbedArgs(chunks, batchSize) == [chunks |-> chunks, batchSize |-> batchSize]

\* input: texts of openai.embeddings.create for the batch that starts at i
TextsAt(chunks, i, batchSize) ==
    LET batch == BatchAt(chunks, i, batchSize)
    IN  [j \in 1 .. Len(batch) |-> batch[j].text]

\* history of a call: the inputs of the requests it sent, in the order of
\* sending, and the number of its delays
History(requests, delays) == [requests |-> requests, delays |-> delays]

\* the call, up to its first await
EmbedChunks ==
    /\ NoCallYet
    /\ \E chunks \in ChunkLists, batchSize \in BatchSizes :
        /\ tasks = <<>>
        /\ IF chunks = <<>>
           THEN /\ lastOp' = PureCall("embedChunks", EmbedArgs(chunks, batchSize),
                                      Returned(<<>>))
                                 @@ History(<<>>, 0)
                /\ UNCHANGED tasks
           ELSE /\ tasks' = [pc |-> "request", chunks |-> chunks,
                             batchSize |-> batchSize, i |-> 0, embeddedChunks |-> <<>>]
                            @@ History(<<TextsAt(chunks, 0, batchSize)>>, 0)
                /\ UNCHANGED lastOp
        /\ UNCHANGED <<facadeVars, storeData, initialized, file, probeCount, chosen,
                       latest, preRestart>>

\* await openai.embeddings.create(...) is rejected: the call throws
RequestRejected ==
    /\ tasks # <<>>
    /\ tasks.pc = "request"
    /\ lastOp' = PureCall("embedChunks", EmbedArgs(tasks.chunks, tasks.batchSize),
                          Thrown("APIError"))
                 @@ History(tasks.requests, tasks.delays)
    /\ tasks' = <<>>
    /\ UNCHANGED <<facadeVars, storeData, initialized, file, probeCount, chosen,
                   latest, preRestart>>

\* await openai.embeddings.create(...) is answered: the inner loop runs,
\* then the call waits for the delay or returns
RequestAnswered ==
    /\ tasks # <<>>
    /\ tasks.pc = "request"
    /\ LET batch == BatchAt(tasks.chunks, tasks.i, tasks.batchSize)
       IN  \E data \in [1 .. Len(batch) -> Embeddings] :
              LET embeddedChunks == PushEmbedded(tasks.embeddedChunks, batch, data, 1)
              IN  IF tasks.i + tasks.batchSize < Len(tasks.chunks)
                  THEN /\ tasks' = [tasks EXCEPT !.pc = "delay",
                                                 !.embeddedChunks = embeddedChunks,
                                                 !.delays = @ + 1]
                       /\ UNCHANGED lastOp
                  ELSE /\ tasks' = <<>>
                       /\ lastOp' = PureCall("embedChunks",
                                             EmbedArgs(tasks.chunks, tasks.batchSize),
                                             Returned(embeddedChunks))
                                    @@ History(tasks.requests, tasks.delays)
    /\ UNCHANGED <<facadeVars, storeData, initialized, file, probeCount, chosen,
                   latest, preRestart>>

\* await delay(100) is over: the next batch is sent
DelayElapsed ==
    /\ tasks # <<>>
    /\ tasks.pc = "delay"
    /\ tasks' = [tasks EXCEPT
                    !.pc = "request",
                    !.i = @ + tasks.batchSize,
                    !.requests = Append(@, TextsAt(tasks.chunks, tasks.i + tasks.batchSize,
                                                   tasks.batchSize))]
    /\ UNCHANGED <<facadeVars, storeData, initialized, file, lastOp, probeCount,
                   chosen, latest, preRestart>>

NextEmbed ==
    \/ EmbedChunks
    \/ RequestRejected
    \/ RequestAnswered
    \/ DelayElapsed

SpecEmbed == Init /\ [][NextEmbed]_vars

\* the service settles every request (it answers or rejects it) and the
\* timer of delay(100) fires
SpecEmbedLive ==
    /\ SpecEmbed
    /\ WF_vars(RequestAnswered \/ RequestRejected)
    /\ WF_vars(DelayElapsed)

\* C16: embed_many fails, or returns one embedded provision for each input
\* provision, in input order and with the same ids: when the service fails
\* for a batch or has no vector for an input, no shorter list is returned.
C16_AllEmbeddedOrFailure ==
    (lastOp.op = "embedChunks" /\ ~lastOp.threw)
        => /\ Len(lastOp.out) = Len(lastOp.args.chunks)
           /\ \A k \in 1 .. Len(lastOp.out) :
                 /\ lastOp.out[k].id = lastOp.args.chunks[k].id
                 /\ lastOp.out[k].embedding # NoEmbedding

(***************************************************************************)
(* The chunker (ingestion/chunker.ts).  A document is a string; the        *)
(* regular expressions are matched character by character, as              *)
(* RegExp.prototype.exec matches them: leftmost start, greedy quantifiers  *)
(* that give back what a later part of the pattern needs, the flag i as a  *)
(* comparison of the lower-cased text.  Of the metadata, lawFullName and   *)
(* sourceFile are copied from the arguments and are left out.              *)
(***************************************************************************)

\* the character of s at i, "" outside of s
At(s, i) == IF i >= 1 /\ i <= Len(s) THEN Char(s, i) ELSE ""

\* s.substring(from - 1, to - 1): the characters from .. to - 1
Between(s, from, to) == IF to <= from THEN "" ELSE SubSeq(s, from, to - 1)

StartsWithAt(s, p, literal) ==
    /\ p >= 1
    /\ p + Len(literal) - 1 <= Len(s)
    /\ SubSeq(s, p, p + Len(literal) - 1) = literal

SetMin(S) == CHOOSE x \in S : \A y \in S : x <= y
SetMax(S) == CHOOSE x \in S : \A y \in S : x >= y

\* the end of the longest run of characters of `chars` that starts at p
\* (the position after the run; p when the run is empty)
RunEnd(s, p, chars) ==
    LET stops == {q \in p .. Len(s) : Char(s, q) \notin chars}
    IN  IF stops = {} THEN Len(s) + 1 ELSE SetMin(stops)

\* [^\n]*: the position of the first line feed at or after p, or the end
LineEnd(s, p) ==
    LET feeds == {q \in p .. Len(s) : Char(s, q) = "\n"}
    IN  IF feeds = {} THEN Len(s) + 1 ELSE SetMin(feeds)

Spaces == {" ", "\n", "\t", "\r"}
Digits == {"0", "1", "2", "3", "4", "5", "6", "7", "8", "9"}

\* String.prototype.trim
Trim(s) ==
    LET inked == {i \in 1 .. Len(s) : Char(s, i) \notin Spaces}
    IN  IF inked = {} THEN "" ELSE SubSeq(s, SetMin(inked), SetMax(inked))

\* text.replace(/\r\n/g, '\n').replace(/\r/g, '\n')
UnifyLineEndings(s) ==
    Join([i \in 1 .. Len(s) |->
            IF Char(s, i) # "\r" THEN Char(s, i)
            ELSE IF At(s, i + 1) = "\n" THEN "" ELSE "\n"])

\* .replace(/\n{3,}/g, '\n\n')
CollapseBlankLines(s) ==
    Join([i \in 1 .. Len(s) |->
            IF Char(s, i) = "\n" /\ At(s, i - 1) = "\n" /\ At(s, i - 2) = "\n"
            THEN "" ELSE Char(s, i)])

\* .replace(/[ \t]+/g, ' ')
CollapseSpaces(s) ==
    Join([i \in 1 .. Len(s) |->
            IF Char(s, i) \notin {" ", "\t"} THEN Char(s, i)
            ELSE IF At(s, i - 1) \in {" ", "\t"} THEN "" ELSE " "])

normalizeText(text) == Trim(CollapseSpaces(CollapseBlankLines(UnifyLineEndings(text))))

\* [IVX\d] under the flag i
Numerals == Digits \cup {"i", "v", "x"}

\* [.\-\u2013]: the full stop, the hyphen and the en dash (a character no
\* text of the model holds, and that a string of the model cannot hold)
Marks == {".", "-"}

\* /TÍTULO\s+[IVX\d]+[.\s\-\u2013]*([^\n]*)/gi (keyword "título") and its
\* CAPÍTULO twin tried at p of the lower-cased text: the position after the
\* match, 0 when p starts no match
SectionEnd(low, p, keyword) ==
    LET p1 == p + Len(keyword)
        p2 == RunEnd(low, p1, Spaces)
        p3 == RunEnd(low, p2, Numerals)
        p4 == RunEnd(low, p3, Spaces \cup Marks)
    IN  IF StartsWithAt(low, p, keyword) /\ p2 > p1 /\ p3 > p2
        THEN LineEnd(low, p4) ELSE 0

\* the loop of extractSectionPositions, from lastIndex
RECURSIVE SectionsFrom(_, _, _, _)
SectionsFrom(text, low, keyword, lastIndex) ==
    LET starts == {p \in lastIndex .. Len(low) : SectionEnd(low, p, keyword) # 0}
    IN  IF starts = {} THEN <<>>
        ELSE LET p == SetMin(starts)
                 end == SectionEnd(low, p, keyword)
             IN  <<[position |-> p, name |-> Trim(Between(text, p, end))]>>
                 \o SectionsFrom(text, low, keyword, end)

extractSectionPositions(text, keyword) ==
    SectionsFrom(text, ToLowerCase(text), keyword, 1)

findCurrentSectionFirst(position, sections) ==
    IF Len(sections) > 0 /\ sections[1].position <= position
    THEN sections[1].name ELSE ""

\* the name of the last section at or before position
findCurrentSection(position, sections) ==
    LET after == {k \in 1 .. Len(sections) : sections[k].position > position}
        n == IF after = {} THEN Len(sections) ELSE SetMin(after) - 1
    IN  IF n = 0 THEN "" ELSE sections[n].name

\* (?:Artículo|Art\.?) at p: the position after it, 0 when it is not there
ArticleWordEnd(low, p) ==
    IF StartsWithAt(low, p, "artículo") THEN p + 8
    ELSE IF StartsWithAt(low, p, "art.") THEN p + 4
    ELSE IF StartsWithAt(low, p, "art") THEN p + 3
    ELSE 0

\* (?:Artículo|Art\.?)\s+\d+ at p
ArticleAhead(low, p) ==
    LET p1 == ArticleWordEnd(low, p)
    IN  /\ p1 # 0
        /\ RunEnd(low, p1, Spaces) > p1
        /\ At(low, RunEnd(low, p1, Spaces)) \in Digits

\* (?=(?:Artículo|Art\.?)\s+\d+|TÍTULO|CAPÍTULO|$) at q
BodyStop(low, q) ==
    \/ q > Len(low)
    \/ ArticleAhead(low, q)
    \/ StartsWithAt(low, q, "título")
    \/ StartsWithAt(low, q, "capítulo")

NoMatch == [found |-> FALSE]

\* the value of Body at `value`, computed once
With(value, Body(_)) == CHOOSE r \in {Body(v) : v \in {value}} : TRUE

\* \s*([^\n]+)\n after the mark at p5: where the heading starts. The white
\* space gives back what the heading needs: one character at least, and a
\* line feed after it. 0 when no start does
HeadingStart(low, p5) ==
    With({t \in (p5 + 1) .. RunEnd(low, p5 + 1, Spaces) :
             At(low, t) \notin {"", "\n"} /\ LineEnd(low, t) <= Len(low)},
         LAMBDA starts : IF starts = {} THEN 0 ELSE SetMax(starts))

\* ([\s\S]*?): the body stops at the first position the lookahead accepts
BodyEnd(low, from) == SetMin({q \in from .. (Len(low) + 1) : BodyStop(low, q)})

\* (\d+(?:\s*bis)?)\s* after the digits that end at p3: the end of the number
NumberEnd(low, p3) ==
    With(RunEnd(low, p3, Spaces),
         LAMBDA bis : IF StartsWithAt(low, bis, "bis") THEN bis + 3 ELSE p3)

\* the match of articleRegex whose number is p2 .. p4 and whose heading
\* starts at t
MatchOf(text, low, p, p2, p4, t) ==
    With(LineEnd(low, t), LAMBDA feed :
    With(BodyEnd(low, feed + 1), LAMBDA stop :
        [found |-> TRUE, index |-> p,
         number |-> Between(text, p2, p4),
         heading |-> Between(text, t, feed),
         body |-> Between(text, feed + 1, stop),
         lastIndex |-> stop]))

\* articleRegex tried at p: match.index, match[1..3] and the new lastIndex
ArticleAt(text, low, p) ==
    With(ArticleWordEnd(low, p), LAMBDA p1 :
        IF p1 = 0 THEN NoMatch
        ELSE
    With(RunEnd(low, p1, Spaces), LAMBDA p2 :
    With(RunEnd(low, p2, Digits), LAMBDA p3 :
    With(NumberEnd(low, p3), LAMBDA p4 :
    With(RunEnd(low, p4, Spaces), LAMBDA p5 :
    With(HeadingStart(low, p5), LAMBDA t :
        IF p2 = p1 \/ p3 = p2 \/ At(low, p5) \notin Marks \/ t = 0
        THEN NoMatch
        ELSE MatchOf(text, low, p, p2, p4, t)))))))

\* articleRegex.exec(normalizedText), from lastIndex
Exec(text, low, lastIndex) ==
    With({p \in lastIndex .. Len(low) : ArticleWordEnd(low, p) # 0},
         LAMBDA tries :
    With({ArticleAt(text, low, p) : p \in tries} \ {NoMatch}, LAMBDA matches :
        IF matches = {} THEN NoMatch
        ELSE CHOOSE m \in matches : \A n \in matches : m.index <= n.index))

\* articleNumber.replace(/\s+/g, '')
RemoveSpaces(s) ==
    Join([i \in 1 .. Len(s) |-> IF Char(s, i) \in Spaces THEN "" ELSE Char(s, i)])

buildChunkText(metadata, content) ==
    (IF metadata.title # "" THEN "[" \o metadata.title \o "]\n" ELSE "")
    \o (IF metadata.chapter # "" THEN "[" \o metadata.chapter \o "]\n" ELSE "")
    \o metadata.article \o ". " \o metadata.articleTitle \o "\n"
    \o "\n" \o content

\* seenIds.get(baseId) ?? 0, seenIds kept as the list of the base ids set
SeenCount(seenIds, baseId) ==
    Cardinality({k \in 1 .. Len(seenIds) : seenIds[k] = baseId})

UniqueIdNoSuffix(baseId, count) == baseId

UniqueId(baseId, count) ==
    IF count = 0 THEN baseId ELSE baseId \o "-" \o ToString(count)

\* metadata of the article of a match (its number trimmed)
ArticleMetadata(doc, match, articleNumber) ==
    [law |-> doc.code,
     title |-> findCurrentSection(match.index, doc.titlePositions),
     chapter |-> findCurrentSection(match.index, doc.chapterPositions),
     article |-> "Artículo " \o articleNumber,
     articleTitle |-> Trim(match.heading)]

\* chunks.push({ id: uniqueId, text: buildChunkText(...), metadata })
ArticleChunk(baseId, seenIds, metadata, articleContent) ==
    LegalChunk(UniqueId(baseId, SeenCount(seenIds, baseId)),
               buildChunkText(metadata, articleContent), metadata)

\* the while loop of chunkLegalDocument; `starts` keeps, for each chunk
\* pushed, the match.index it came from (history)
RECURSIVE ArticleLoop(_, _, _, _, _)
ArticleLoop(doc, lastIndex, chunks, starts, seenIds) ==
    With(Exec(doc.text, doc.low, lastIndex), LAMBDA match :
        IF ~match.found THEN [chunks |-> chunks, starts |-> starts]
        ELSE
    With(Trim(match.number), LAMBDA articleNumber :
    With(Trim(match.body), LAMBDA articleContent :
        IF articleNumber = "" \/ articleContent = ""
        THEN ArticleLoop(doc, match.lastIndex, chunks, starts, seenIds)
        ELSE
    With(doc.code \o "-art-" \o RemoveSpaces(articleNumber), LAMBDA baseId :
    With(ArticleChunk(baseId, seenIds,
                      ArticleMetadata(doc, match, articleNumber), articleContent),
         LAMBDA chunk :
        ArticleLoop(doc, match.lastIndex, Append(chunks, chunk),
                    Append(starts, match.index), Append(seenIds, baseId)))))))

\* the part of chunkLegalDocument that scans for articles
ArticleChunks(normalizedText, code) ==
    ArticleLoop([text |-> normalizedText, low |-> ToLowerCase(normalizedText),
                 code |-> code,
                 titlePositions |-> extractSectionPositions(normalizedText, "título"),
                 chapterPositions |-> extractSectionPositions(normalizedText, "capítulo")],
                1, <<>>, <<>>, <<>>)

maxChunkLength == 1500

\* text.split(/\n\n+/), from position `from`
RECURSIVE ParagraphsFrom(_, _)
ParagraphsFrom(s, from) ==
    LET seps == {i \in from .. Len(s) : Char(s, i) = "\n" /\ At(s, i + 1) = "\n"}
    IN  IF seps = {} THEN <<Between(s, from, Len(s) + 1)>>
        ELSE <<Between(s, from, SetMin(seps))>>
             \o ParagraphsFrom(s, RunEnd(s, SetMin(seps), {"\n"}))

FallbackChunk(code, chunkIndex, currentChunk) ==
    LegalChunk(code \o "-chunk-" \o ToString(chunkIndex), Trim(currentChunk),
               [law |-> code, article |-> "Fragmento " \o ToString(chunkIndex + 1),
                articleTitle |-> "Texto legal"])

\* the loop of chunkByParagraphs and the push of the last chunk
RECURSIVE PackFrom(_, _, _, _, _, _)
PackFrom(paragraphs, k, code, chunks, chunkIndex, currentChunk) ==
    IF k > Len(paragraphs)
    THEN IF Trim(currentChunk) # ""
         THEN Append(chunks, FallbackChunk(code, chunkIndex, currentChunk))
         ELSE chunks
    ELSE IF Len(currentChunk) + Len(paragraphs[k]) > maxChunkLength /\ currentChunk # ""
         THEN PackFrom(paragraphs, k + 1, code,
                       Append(chunks, FallbackChunk(code, chunkIndex, currentChunk)),
                       chunkIndex + 1, paragraphs[k] \o "\n\n")
         ELSE PackFrom(paragraphs, k + 1, code, chunks, chunkIndex,
                       currentChunk \o paragraphs[k] \o "\n\n")

chunkByParagraphs(text, code) ==
    PackFrom(ParagraphsFrom(text, 1), 1, code, <<>>, 0, "")

\* chunkLegalDocument with the history of its article loop: the chunks it
\* returns and, for the article strategy, the match.index of each
Segment(text, code) ==
    With(normalizeText(text), LAMBDA normalizedText :
    With(ArticleChunks(normalizedText, code), LAMBDA articles :
        IF Len(articles.chunks) = 0
        THEN [chunks |-> chunkByParagraphs(normalizedText, code), starts |-> <<>>]
        ELSE articles))

chunkLegalDocument(text, code) == Segment(text, code).chunks

\* s.slice(-n): for n = 0 this is s.slice(0), the whole of s
SliceLast(s, n) ==
    IF n > 0 THEN Between(s, IF Len(s) - n + 1 < 1 THEN 1 ELSE Len(s) - n + 1, Len(s) + 1)
    ELSE Between(s, 1 - n, Len(s) + 1)

\* s.slice(0, n)
SliceFirst(s, n) ==
    IF n >= 0 THEN Between(s, 1, Min(n, Len(s)) + 1) ELSE Between(s, 1, Len(s) + n + 1)

\* parts.join('\n') of addOverlapContext; index is counted from 1
OverlapText(chunks, index, overlapSize) ==
    (IF index > 1
     THEN "[Contexto anterior: ..." \o SliceLast(chunks[index - 1].text, overlapSize)
          \o "]\n\n"
     ELSE "")
    \o chunks[index].text
    \o (IF index < Len(chunks)
        THEN "\n\n[Contexto siguiente: " \o SliceFirst(chunks[index + 1].text, overlapSize)
             \o "...]"
        ELSE "")

addOverlapContextSpreadingPrevious(chunks, overlapSize) ==
    [index \in 1 .. Len(chunks) |->
        [chunks[IF index > 1 THEN index - 1 ELSE index]
            EXCEPT !.text = OverlapText(chunks, index, overlapSize)]]

addOverlapContext(chunks, overlapSize) ==
    [index \in 1 .. Len(chunks) |->
        [chunks[index] EXCEPT !.text = OverlapText(chunks, index, overlapSize)]]

(***************************************************************************)
(* The calls of the chunker: chunkLegalDocument on a document, then        *)
(* addOverlapContext on the chunks it returned, as scripts/ingest.ts       *)
(* calls them.                                                             *)
(***************************************************************************)
MaxLines == 3
DefaultOverlapSize == 200

\* The pieces a document is made of: a Title heading, a Chapter heading, two
\* article headings (one numbered "1 bis"), a line of prose, a line of prose
\* that refers to a Title, an empty line, and a whole article.
Lines ==
    { "TÍTULO I. Ámbito\n", "CAPÍTULO I\n", "Artículo 1. Objeto\n",
      "Art. 1 bis.- Fin\n", "Texto uno.\n", "Ver el Título II.\n", "\r\n",
      "Artículo 1. Objeto\nTexto uno.\n" }

\* a paragraph of 800 characters
LongParagraph == Join([i \in 1 .. 100 |-> "palabra "])

\* prose without articles that does not fit in one fallback chunk
LongDocuments ==
    { LongParagraph \o "\n\n" \o LongParagraph \o "\n\n" \o "fin",
      LongParagraph \o "\n\n" \o LongParagraph \o "\n\n" \o LongParagraph,
      LongParagraph \o LongParagraph }

Documents == {Join(lines) : lines \in SeqsUpTo(Lines, MaxLines)} \cup LongDocuments

LawCodes == {"LAU"}
OverlapSizes == {0, 3, DefaultOverlapSize}

\* lastOp.starts is history: the match.index of each chunk returned
ChunkLegalDocument ==
    /\ NoCallYet
    /\ \E text \in Documents, code \in LawCodes :
       \E segmented \in {Segment(text, code)} :
        /\ lastOp' = PureCall("chunkLegalDocument", [text |-> text, code |-> code],
                              Returned(segmented.chunks))
                     @@ [starts |-> segmented.starts]
        /\ UNCHANGED indexVars

AddOverlapContext ==
    /\ lastOp.op = "chunkLegalDocument"
    /\ \E overlapSize \in OverlapSizes :
        /\ lastOp' = PureCall("addOverlapContext",
                              [chunks |-> lastOp.out, overlapSize |-> overlapSize],
                              Returned(addOverlapContext(lastOp.out, overlapSize)))
        /\ UNCHANGED indexVars

InitChunker == Init /\ file = NoFile

NextChunker ==
    \/ ChunkLegalDocument
    \/ AddOverlapContext

SpecChunker == InitChunker /\ [][NextChunker]_vars

\* C17: for every text that is not empty segment returns at least one
\* provision, by the article strategy or by the paragraph fallback; for the
\* empty text it returns none, and no error.
C17_NonEmptyTextGivesProvisions ==
    lastOp.op = "chunkLegalDocument"
        => /\ ~lastOp.threw
           /\ (lastOp.args.text = "") <=> (Len(lastOp.out) = 0)

\* the article number a provision of the article strategy carries in
\* metadata.article, after "Artículo "
ArticleNumberOf(chunk) ==
    SubSeq(chunk.metadata.article, Len("Artículo ") + 1, Len(chunk.metadata.article))

\* '{code}-art-{number without spaces}'
BaseIdOf(code, chunk) == code \o "-art-" \o RemoveSpaces(ArticleNumberOf(chunk))

\* a provision of the article strategy (the fallback sets no title)
FromArticle(chunk) == "title" \in DOMAIN chunk.metadata

\* the id the k-th provision of `out` is to carry
ExpectedId(out, code, k) ==
    IF FromArticle(out[k])
    THEN LET earlier == Cardinality({i \in 1 .. (k - 1) :
                                        BaseIdOf(code, out[i]) = BaseIdOf(code, out[k])})
         IN  IF earlier = 0 THEN BaseIdOf(code, out[k])
             ELSE BaseIdOf(code, out[k]) \o "-" \o ToString(earlier)
    ELSE code \o "-chunk-" \o ToString(k - 1)

\* C18: the ids of the provisions chunkLegalDocument returns for one
\* document are pairwise different; the first provision of an article number
\* has the id '{code}-art-{number without spaces}', the j-th one (j >= 2)
\* that id followed by '-{j-1}', in document order; the provisions of the
\* paragraph fallback have the ids '{code}-chunk-{index}'.
C18_IdsUniqueWithOccurrenceSuffix ==
    lastOp.op = "chunkLegalDocument"
        => /\ \A i, j \in 1 .. Len(lastOp.out) :
                  i < j => lastOp.out[i].id # lastOp.out[j].id
           /\ \A k \in 1 .. Len(lastOp.out) :
                  lastOp.out[k].id = ExpectedId(lastOp.out, lastOp.args.code, k)

\* a document with the same article number twice: the second provision
\* carries the suffix -1, the first none
C18_Witness ==
    /\ lastOp.op = "chunkLegalDocument"
    /\ \E i, j \in 1 .. Len(lastOp.out) :
          /\ i < j
          /\ FromArticle(lastOp.out[i])
          /\ BaseIdOf(lastOp.args.code, lastOp.out[i]) = BaseIdOf(lastOp.args.code, lastOp.out[j])
          /\ lastOp.out[i].id = BaseIdOf(lastOp.args.code, lastOp.out[i])
          /\ lastOp.out[j].id = lastOp.out[i].id \o "-1"

\* the label of the marker of `sections` nearest before offset, "" when no
\* marker is before it
NearestPreceding(sections, offset) ==
    LET before == {k \in 1 .. Len(sections) : sections[k].position < offset}
    IN  IF before = {} THEN ""
        ELSE sections[CHOOSE k \in before :
                         \A j \in before : sections[j].position <= sections[k].position].name

\* a label as a bracketed line, nothing for the empty label
Bracketed(label) == IF label = "" THEN "" ELSE "[" \o label \o "]\n"

C20_OverlapKeepsIdentityAndText ==
    lastOp.op = "addOverlapContext"
        => /\ ~lastOp.threw
           /\ Len(lastOp.out) = Len(lastOp.args.chunks)
           /\ \A k \in 1 .. Len(lastOp.out) :
                 /\ lastOp.out[k].id = lastOp.args.chunks[k].id
                 /\ lastOp.out[k].metadata = lastOp.args.chunks[k].metadata
                 /\ DOMAIN lastOp.out[k] = DOMAIN lastOp.args.chunks[k]
                 /\ Includes(lastOp.out[k].text, lastOp.args.chunks[k].text)

\* two provisions or more, of different ids, given context of their
\* neighbours: the first one's text has grown
C20_Witness ==
    /\ lastOp.op = "addOverlapContext"
    /\ lastOp.args.overlapSize > 0
    /\ Len(lastOp.args.chunks) >= 2
    /\ lastOp.args.chunks[1].id # lastOp.args.chunks[2].id
    /\ Len(lastOp.out[1].text) > Len(lastOp.args.chunks[1].text)

\* the last min(n, length) characters of s, and the first ones
LastChars(s, n) == Between(s, Len(s) - Min(n, Len(s)) + 1, Len(s) + 1)
FirstChars(s, n) == Between(s, 1, Min(n, Len(s)) + 1)

\* the text C26 describes for the provision at index (counted from 1)
ClaimedOverlapText(chunks, index, overlapSize) ==
    (IF index > 1
     THEN "[Contexto anterior: ..." \o LastChars(chunks[index - 1].text, overlapSize)
          \o "]\n\n"
     ELSE "")
    \o chunks[index].text
    \o (IF index < Len(chunks)
        THEN "\n\n[Contexto siguiente: " \o FirstChars(chunks[index + 1].text, overlapSize)
             \o "...]"
        ELSE "")

\* C26: for every overlapSize >= 0, addOverlapContext gives the provision at
\* a position a preceding-context block iff it is not the first and a
\* following-context block iff it is not the last; the preceding block holds
\* the last min(overlapSize, length) characters of the original text of the
\* provision before it, the following block the first min(overlapSize,
\* length) characters of the original text of the provision after it.
C26_OverlapBlocksCarrySlices ==
    (lastOp.op = "addOverlapContext" /\ lastOp.args.overlapSize >= 0)
        => \A k \in 1 .. Len(lastOp.out) :
              lastOp.out[k].text
                  = ClaimedOverlapText(lastOp.args.chunks, k, lastOp.args.overlapSize)

\* the paragraphs of a text that hold something, each trimmed
TrimmedParagraphs(text) ==
    LET paragraphs == ParagraphsFrom(text, 1)
    IN  SelectSeq([k \in 1 .. Len(paragraphs) |-> Trim(paragraphs[k])],
                  LAMBDA paragraph : paragraph # "")

\* the paragraphs of the texts of chunks k .. Len(chunks), in order
RECURSIVE ParagraphsOfChunks(_, _)
ParagraphsOfChunks(chunks, k) ==
    IF k > Len(chunks) THEN <<>>
    ELSE TrimmedParagraphs(chunks[k].text) \o ParagraphsOfChunks(chunks, k + 1)

\* the call returned provisions of the paragraph fallback
FallbackReturned ==
    /\ lastOp.op = "chunkLegalDocument"
    /\ Len(lastOp.out) > 0
    /\ ~FromArticle(lastOp.out[1])

\* C27: every provision of the paragraph fallback has a text of at most
\* maxChunkLength (1500) characters, whatever the length of the paragraphs;
\* the provisions carry the ids '{code}-chunk-0', '{code}-chunk-1', ... and
\* the labels 'Fragmento 1', 'Fragmento 2', ..., and together hold every
\* paragraph of the input once, in order.
C27_FallbackWithinBudget ==
    FallbackReturned
        => /\ \A k \in 1 .. Len(lastOp.out) :
                 /\ Len(lastOp.out[k].text) <= maxChunkLength
                 /\ lastOp.out[k].id = lastOp.args.code \o "-chunk-" \o ToString(k - 1)
                 /\ lastOp.out[k].metadata.article = "Fragmento " \o ToString(k)
           /\ ParagraphsOfChunks(lastOp.out, 1)
                  = TrimmedParagraphs(normalizeText(lastOp.args.text))

\* q starts a line of text
AtLineStart(text, q) == At(text, q - 1) \in {"", "\n"}

\* a heading at q: a line that starts with an article marker or with a Title
\* or Chapter marker
HeadingAt(text, low, q) ==
    /\ AtLineStart(text, q)
    /\ \/ ArticleAhead(low, q)
       \/ SectionEnd(low, q, "título") # 0
       \/ SectionEnd(low, q, "capítulo") # 0

\* where the provision that starts at `start` is to end: the next heading
\* after it, the end of the text when there is none
NextBoundary(text, low, start) ==
    LET headings == {q \in (start + 1) .. Len(text) : HeadingAt(text, low, q)}
    IN  IF headings = {} THEN Len(text) + 1 ELSE SetMin(headings)

\* where the body of the article matched at `start` begins: after the line
\* feed that ends its heading
BodyStart(text, low, start) ==
    LET match == ArticleAt(text, low, start)
    IN  match.lastIndex - Len(match.body)

\* C24: every provision of the article strategy holds the whole text from
\* its heading to the next provision heading, the next Title or Chapter
\* heading, or the end of the text: its body is cut nowhere else and nothing
\* between two provision headings is left out.
C24_BodyRunsToNextHeading ==
    (lastOp.op = "chunkLegalDocument" /\ Len(lastOp.starts) > 0)
        => LET text == normalizeText(lastOp.args.text)
               low == ToLowerCase(text)
           IN  \A k \in 1 .. Len(lastOp.out) :
                   lastOp.out[k].text
                       = buildChunkText(lastOp.out[k].metadata,
                                        Trim(Between(text,
                                                     BodyStart(text, low, lastOp.starts[k]),
                                                     NextBoundary(text, low, lastOp.starts[k]))))

\* the boost of line 63-64 for a term found in the text of a candidate, in
\* hundredths
GenericTextBoost == 10

\* C28: every boost of the lexicon is at least the boost for a term found in
\* the text of a candidate (0.10): for every term of a query that rerank
\* looks up in LEGAL_TERM_BOOST, each entry of the term carries a boost of at
\* least that size.
C28_LexiconBoostsAtLeastGeneric ==
    lastOp.op = "rerank"
        => \A term \in {t \in DOMAIN LEGAL_TERM_BOOST :
                           \E k \in 1 .. Len(extractKeyTerms(lastOp.args.query)) :
                               extractKeyTerms(lastOp.args.query)[k] = t} :
               \A e \in 1 .. Len(LEGAL_TERM_BOOST[term]) :
                   LEGAL_TERM_BOOST[term][e].boost >= GenericTextBoost

\* Math.ceil(n / b)
Ceil(n, b) == (n + b - 1) \div b

RECURSIVE Flatten(_)
Flatten(lists) == IF lists = <<>> THEN <<>> ELSE Head(lists) \o Flatten(Tail(lists))

\* the texts of the first `count` provisions of chunks
FirstTexts(chunks, count) == [k \in 1 .. count |-> chunks[k].text]

\* the requests sent so far hold at most batchSize texts each and together
\* the texts of the first provisions, in order; they are at most ceil(n / b)
RequestsInOrder(requests, chunks, batchSize) ==
    /\ Len(requests) <= Ceil(Len(chunks), batchSize)
    /\ \A k \in 1 .. Len(requests) :
          Len(requests[k]) >= 1 /\ Len(requests[k]) <= batchSize
    /\ Flatten(requests)
           = FirstTexts(chunks, Min(Len(chunks), Len(requests) * batchSize))

\* while the call is suspended: a delay after each request answered but the
\* last one
C25_WhileRunning ==
    tasks # <<>>
        => /\ RequestsInOrder(tasks.requests, tasks.chunks, tasks.batchSize)
           /\ tasks.delays
                  = (IF tasks.pc = "request" THEN Len(tasks.requests) - 1
                     ELSE Len(tasks.requests))
           /\ tasks.pc = "delay"
                  => Len(tasks.requests) < Ceil(Len(tasks.chunks), tasks.batchSize)

\* when the call has returned: ceil(n / b) requests that cover the input,
\* a delay between each two and none after the last
C25_WhenReturned ==
    (lastOp.op = "embedChunks" /\ ~lastOp.threw)
        => LET n == Len(lastOp.args.chunks)
               b == lastOp.args.batchSize
           IN  /\ RequestsInOrder(lastOp.requests, lastOp.args.chunks, b)
               /\ Len(lastOp.requests) = Ceil(n, b)
               /\ lastOp.delays = (IF n = 0 THEN 0 ELSE Ceil(n, b) - 1)

\* a request is sent only by the call that waits for its delay to end, that
\* is after the answer to the request before it and after the delay
C25_OneRequestAtATime ==
    (tasks # <<>> /\ tasks' # <<>> /\ tasks'.requests # tasks.requests)
        => /\ tasks.pc = "delay"
           /\ tasks'.pc = "request"
           /\ Len(tasks'.requests) = Len(tasks.requests) + 1

\* C25: for n provisions and a batch size b >= 1, embedChunks sends
\* ceil(n / b) requests of at most b texts each that cover the input in
\* order; request k + 1 is sent only after the answer to request k and after
\* the delay; there is a delay between two batches and none after the last;
\* the call ends.
C25_BatchesSequentialThenEnds ==
    /\ [](C25_WhileRunning /\ C25_WhenReturned)
    /\ [][C25_OneRequestAtATime]_vars
    /\ (tasks # <<>>) ~> (tasks = <<>> /\ lastOp.op = "embedChunks")

\* three provisions in batches of two: two requests and one delay
C25_Witness ==
    /\ lastOp.op = "embedChunks"
    /\ ~lastOp.threw
    /\ Len(lastOp.args.chunks) = 3
    /\ lastOp.args.batchSize = 2
    /\ Len(lastOp.requests) = 2
    /\ lastOp.delays = 1

\* the calls of the local store that write the file
LocalMutations == {"addChunksLocal", "deleteByLawLocal", "clearStoreLocal"}

\* with a file that does not parse, a call that initializes the store
\* returns and leaves the store empty
C30_StartsEmpty ==
    (file = CorruptFile /\ lastOp.op \in {"initLocalVectorStore", "getStatsLocal",
                                          "queryChunksLocal"})
        => /\ lastOp.err = "none"
           /\ storeData = <<>>
           /\ lastOp.op = "getStatsLocal" => lastOp.count = 0
           /\ lastOp.op = "queryChunksLocal" => lastOp.result = <<>>

\* a file that does not parse stays as it is in every step but an upsert, a
\* delete by law or a clear, and such a call that returns writes the entries
\* it leaves in memory
C30_OverwrittenByMutation ==
    file = CorruptFile
        => IF lastOp'.op \in LocalMutations /\ lastOp'.err = "none"
           THEN file' = SaveStore(storeData')
           ELSE file' = file

\* C30: when the file of the store exists and cannot be read or parsed, the
\* initialization of the local store does not fail and the store starts
\* empty (count 0); the file is left as it is until the next mutation, and
\* the next upsert, delete by law or clear that succeeds overwrites it with
\* what the memory then holds.
C30_CorruptFileStartsEmpty ==
    /\ []C30_StartsEmpty
    /\ [][C30_OverwrittenByMutation]_vars

\* the store initialized from a file that does not parse
C30_Witness ==
    /\ lastOp.op = "initLocalVectorStore"
    /\ file = CorruptFile
    /\ initialized
    /\ storeData = <<>>

(***************************************************************************)
(* generation: validateCitations, on the citations extractCitations found  *)
(* in an answer and the retrieved context.                                 *)
(***************************************************************************)
MaxCitations == 2

SourceCitation(article, law, excerpt) ==
    [article |-> article, law |-> law, excerpt |-> excerpt]

\* citation.article.split(' ')[1] ?? ''
SecondPiece(s) ==
    LET blanks == {i \in 1 .. Len(s) : Char(s, i) = " "}
        first == SetMin(blanks)
        later == {i \in blanks : i > first}
    IN  IF blanks = {} THEN ""
        ELSE Between(s, first + 1, IF later = {} THEN Len(s) + 1 ELSE SetMin(later))

\* the callback of context.find
CitationMatches(result, citation) ==
    \/ ToLowerCase(result.chunk.metadata.article) = ToLowerCase(citation.article)
    \/ Includes(ToLowerCase(result.chunk.metadata.article), SecondPiece(citation.article))

\* context.find(...): the index of the first result that matches, 0 for
\* undefined
FindMatching(context, citation) ==
    LET found == {k \in 1 .. Len(context) : CitationMatches(context[k], citation)}
    IN  IF found = {} THEN 0 ELSE SetMin(found)

\* matchingChunk.chunk.text.slice(0, 200) + '...'
ExcerptOf(result) == SliceFirst(result.chunk.text, 200) \o "..."

RECURSIVE ValidateFrom(_, _, _, _, _)
ValidateFrom(citations, k, context, valid, invalid) ==
    IF k > Len(citations) THEN [valid |-> valid, invalid |-> invalid]
    ELSE IF FindMatching(context, citations[k]) # 0
         THEN ValidateFrom(citations, k + 1, context,
                           Append(valid,
                                  [citations[k] EXCEPT
                                      !.excerpt = ExcerptOf(context[FindMatching(context,
                                                                                 citations[k])])]),
                           invalid)
         ELSE ValidateFrom(citations, k + 1, context, valid, Append(invalid, citations[k]))

validateCitations(citations, context) == ValidateFrom(citations, 1, context, <<>>, <<>>)

\* what extractCitations returns for answers that cite these articles
Citations ==
    { SourceCitation("Artículo 9", "LAU", ""),
      SourceCitation("Artículo 19", "LAU", ""),
      SourceCitation("Artículo 21", "LAU", "") }
CitationLists == SeqsUpTo(Citations, MaxCitations)

Context4Citations ==
    { RetrievalResult("LAU-art-9", "LAU", "Artículo 9", "Plazo", "La duración", 80),
      RetrievalResult("LAU-art-19", "LAU", "Artículo 19", "Elevación", "La realización", 75),
      RetrievalResult("LAU-art-9-1", "LAU", "ARTÍCULO 9", "Plazo", "Segunda copia", 70) }
Contexts == SeqsUpTo(Context4Citations, MaxCitations)

ValidateCitations ==
    /\ NoCallYet
    /\ \E citations \in CitationLists, context \in Contexts :
        /\ lastOp' = PureCall("validateCitations",
                              [citations |-> citations, context |-> context],
                              Returned(validateCitations(citations, context)))
        /\ UNCHANGED indexVars

NextCitations == ValidateCitations

SpecCitations == Init /\ [][NextCitations]_vars

\* the context holds a chunk for the article of the citation
ChunksOfArticle(context, citation) ==
    {k \in 1 .. Len(context) :
        ToLowerCase(context[k].chunk.metadata.article) = ToLowerCase(citation.article)}

\* the citations as they were given: without the excerpt
WithoutExcerpt(citations) ==
    [k \in 1 .. Len(citations) |-> [citations[k] EXCEPT !.excerpt = ""]]

\* C22: validateCitations splits the citations into valid and invalid, each
\* citation in one of the two lists and in the order given; a citation is
\* valid only if the context holds a chunk for its article, and then carries
\* an excerpt of such a chunk; a citation of an article the context does not
\* hold is invalid.
C22_ValidIffArticleInContext ==
    lastOp.op = "validateCitations"
        => LET citations == lastOp.args.citations
               context == lastOp.args.context
               inContext(c) == ChunksOfArticle(context, c) # {}
           IN  /\ WithoutExcerpt(lastOp.out.valid) = SelectSeq(citations, inContext)
               /\ lastOp.out.invalid
                      = SelectSeq(citations, LAMBDA c : ~inContext(c))
               /\ \A k \in 1 .. Len(lastOp.out.valid) :
                      \E j \in ChunksOfArticle(context, lastOp.out.valid[k]) :
                          lastOp.out.valid[k].excerpt = ExcerptOf(context[j])

(***************************************************************************)
(* rag.ts retrieve.  The index answers queryChunks with the topK entries   *)
(* nearest to the question, best first, each with its similarity (in       *)
(* hundredths); generateEmbedding and queryChunks are taken to succeed.    *)
(***************************************************************************)
MaxStored == 3
DefaultMaxChunks == 5
DefaultSimilarityThreshold == 70

\* await queryChunks(questionEmbedding, topK): the topK best entries
QueryAnswer(stored, topK) == Slice0(SortDescending(stored), topK)

\* retrieve that applies the threshold to the similarity of the index,
\* before the rerank
retrieveThresholdBeforeRerank(stored, question, maxChunks, similarityThreshold) ==
    LET retrievedChunks == QueryAnswer(stored, maxChunks * 2)
        reranked == rerank(filterByThreshold(retrievedChunks, similarityThreshold),
                           question)
    IN  IF reranked.threw THEN reranked
        ELSE Returned(Slice0(reranked.value, maxChunks))

retrieve(stored, question, maxChunks, similarityThreshold) ==
    LET retrievedChunks == QueryAnswer(stored, maxChunks * 2)
        reranked == rerank(retrievedChunks, question)
    IN  IF reranked.threw THEN reranked
        ELSE Returned(Slice0(filterByThreshold(reranked.value, similarityThreshold),
                             maxChunks))

\* what the index holds: entries of different ids
StoredLists ==
    {stored \in SeqsUpTo(Candidates4Rerank, MaxStored) :
        \A j, k \in 1 .. Len(stored) : j # k => stored[j].chunk.id # stored[k].chunk.id}

\* ragConfig.maxChunks and ragConfig.similarityThreshold, from the environment
MaxChunksSettings == {1, 2, DefaultMaxChunks}
ThresholdSettings == {60, DefaultSimilarityThreshold}

Retrieve ==
    /\ NoCallYet
    /\ \E stored \in StoredLists, question \in Queries,
          maxChunks \in MaxChunksSettings, similarityThreshold \in ThresholdSettings :
        /\ lastOp' = PureCall("retrieve",
                              [stored |-> stored, question |-> question,
                               maxChunks |-> maxChunks,
                               similarityThreshold |-> similarityThreshold],
                              retrieve(stored, question, maxChunks, similarityThreshold))
        /\ UNCHANGED indexVars

NextRetrieve == Retrieve

SpecRetrieve == Init /\ [][NextRetrieve]_vars

\* the reranked candidates of a call of retrieve that are at or over the
\* threshold: the 2 * maxChunks best entries of the index, reranked
ThresholdedReranked(args) ==
    SelectSeq(rerank(QueryAnswer(args.stored, 2 * args.maxChunks), args.question).value,
              LAMBDA r : r.score >= args.similarityThreshold)

\* C21: retrieve returns at most maxChunks results, each with a score of at
\* least the similarity threshold, in non-increasing order of score: it is
\* the start of the list of the 2 * maxChunks candidates searched, reranked
\* and then cut at the threshold by their reranked score.
C21_RetrieveThresholdThenTruncate ==
    (lastOp.op = "retrieve" /\ ~lastOp.threw)
        => /\ Len(lastOp.out) <= lastOp.args.maxChunks
           /\ \A k \in 1 .. Len(lastOp.out) :
                 lastOp.out[k].score >= lastOp.args.similarityThreshold
           /\ \A j, k \in 1 .. Len(lastOp.out) :
                 j < k => lastOp.out[j].score >= lastOp.out[k].score
           /\ lastOp.out
                  = SubSeq(ThresholdedReranked(lastOp.args), 1,
                           Min(lastOp.args.maxChunks,
                               Len(ThresholdedReranked(lastOp.args))))

\* more candidates pass the threshold than maxChunks, and the first result
\* passes it by its boost only
C21_Witness ==
    /\ lastOp.op = "retrieve"
    /\ ~lastOp.threw
    /\ Len(lastOp.out) = lastOp.args.maxChunks
    /\ Len(ThresholdedReranked(lastOp.args)) > lastOp.args.maxChunks
    /\ \E k \in 1 .. Len(lastOp.args.stored) :
          /\ lastOp.args.stored[k].chunk.id = lastOp.out[1].chunk.id
          /\ lastOp.args.stored[k].score < lastOp.args.similarityThreshold

(***************************************************************************)
(* The two realizations side by side: the same calls of addChunks and of   *)
(* queryChunks reach the local store (useLocalStore) and a Chroma server   *)
(* that is up, and the outcome of each is recorded.                        *)
(***************************************************************************)
\* the remote branch of addChunks: the records sent to coll.upsert
ChromaRecords(chunks) == [i \in 1 .. Len(chunks) |-> ToChroma(chunks[i])]

\* the remote branch of queryChunks, the server being up
RemoteQuery(entries, queryEmbedding, topK, filter) ==
    IF ChromaAnswers(entries, queryEmbedding, topK)
    THEN Returned(RetrievalResults(ChromaQuery(entries, queryEmbedding, topK, filter)))
    ELSE Thrown(RequestError)

AddChunksOnBoth ==
    \E chunks \in SeqsUpTo(Catalogue, MaxFacadeBatch) :
        LET stored == UpsertLoop(Ensured(storeData, initialized, file), chunks)
            recs == ChromaRecords(chunks)
            accepted == ChromaAccepts(remote, recs)
        IN  /\ storeData' = stored
            /\ initialized' = TRUE
            /\ file' = SaveStore(stored)
            /\ remote' = IF accepted THEN ChromaUpsert(remote, recs) ELSE remote
            /\ lastOp' = [op |-> "addChunks on both", args |-> [chunks |-> chunks],
                          local |-> Returned(<<>>),
                          remote |-> IF accepted THEN Returned(<<>>)
                                     ELSE Thrown(RequestError)]
            /\ UNCHANGED <<client, collection, useLocalStore, probeCount, chosen,
                           latest, preRestart, tasks>>

QueryChunksOnBoth ==
    \E queryEmbedding \in QueryVectors, topK \in TopKs, filter \in FacadeFilters :
        LET chunks == Ensured(storeData, initialized, file)
        IN  /\ storeData' = chunks
            /\ initialized' = TRUE
            /\ lastOp' = [op |-> "queryChunks on both",
                          args |-> [queryEmbedding |-> queryEmbedding, topK |-> topK,
                                    filter |-> filter],
                          local |-> Returned(TopResults(chunks, queryEmbedding,
                                                        topK, filter)),
                          remote |-> RemoteQuery(remote, queryEmbedding, topK, filter)]
            /\ UNCHANGED <<client, collection, useLocalStore, remote, file, probeCount,
                           chosen, latest, preRestart, tasks>>

NextInterchange ==
    \/ AddChunksOnBoth
    \/ QueryChunksOnBoth

SpecInterchange == Init /\ [][NextInterchange]_vars

\* both realizations hold the same provisions, in the same order
SameStoredData == remote = ChromaRecords(storeData)

\* what a caller sees of a result: the provision, its metadata and its score
SeenByCaller(r) ==
    [id |-> r.chunk.id, text |-> r.chunk.text, score |-> r.score,
     metadata |-> [key \in MetaKeys |-> MetaGet(r.chunk.metadata, key)]]

SameOutcome(a, b) ==
    /\ a.threw = b.threw
    /\ Len(a.value) = Len(b.value)
    /\ \A k \in 1 .. Len(a.value) : SeenByCaller(a.value[k]) = SeenByCaller(b.value[k])

\* C23: on the same stored data, a search with the same query vector, top_k
\* and filter has the same outcome on the local and on the remote
\* realization: both fail or both return the same provisions, with the
\* same metadata and scores, in the same order.
C23_RealizationsInterchangeable ==
    (lastOp.op = "queryChunks on both" /\ SameStoredData)
        => SameOutcome(lastOp.local, lastOp.remote)

(***************************************************************************)
(* scripts/ingest.ts main, on the local realization: the documents of the  *)
(* directory are segmented, given their overlap, embedded and stored, one  *)
(* after the other; `tasks` holds the position of main.                    *)
(***************************************************************************)
MaxDocuments == 2
DetectionWindow == 2000
IngestOverlapSize == 150

UpperChar(c) ==
    LET at == {i \in 1 .. Len(LowerCaseLetters) : Char(LowerCaseLetters, i) = c}
    IN  IF at = {} THEN c ELSE Char(UpperCaseLetters, CHOOSE i \in at : TRUE)

\* String.prototype.toUpperCase
ToUpperCase(s) == Join([i \in 1 .. Len(s) |-> UpperChar(Char(s, i))])

\* basename(filename, extname(filename)): the name without its extension
BaseName(filename) ==
    LET dots == {i \in 2 .. Len(filename) : Char(filename, i) = "."}
    IN  IF dots = {} THEN filename
        ELSE SubSeq(filename, 1, (CHOOSE i \in dots : \A j \in dots : j <= i) - 1)

\* Object.entries(LAW_REGISTRY), in the order of the source
LAW_REGISTRY ==
    << [code |-> "LAU",
        patterns |-> <<"arrendamientos", "alquiler", "inquilino", "arrendador">>],
       [code |-> "LPH",
        patterns |-> <<"propiedad horizontal", "comunidad", "propietarios">>],
       [code |-> "CC",
        patterns |-> <<"código civil", "contrato", "obligaciones">>],
       [code |-> "ITP",
        patterns |-> <<"transmisiones patrimoniales", "itp", "ajd", "impuesto">>] >>

\* one turn of the loop of detectLawInfo returns
RegistryMatch(info, lowerFilename, lowerContent) ==
    \/ Includes(lowerFilename, ToLowerCase(info.code))
    \/ \E k \in 1 .. Len(info.patterns) : Includes(lowerContent, info.patterns[k])

\* the code detectLawInfo returns
detectLawInfo(filename, content) ==
    LET lowerFilename == ToLowerCase(filename)
        lowerContent == SubSeq(ToLowerCase(content), 1,
                               Min(Len(content), DetectionWindow))
        hits == {k \in 1 .. Len(LAW_REGISTRY) :
                    RegistryMatch(LAW_REGISTRY[k], lowerFilename, lowerContent)}
    IN  IF hits # {} THEN LAW_REGISTRY[SetMin(hits)].code
        ELSE ToUpperCase(BaseName(filename))

\* the files data/laws may hold
Filenames == {"LAU.txt", "LAU-2019.txt", "LPH.txt", "ordenanza.txt"}
Contents ==
    { "Artículo 1. Objeto\nTexto uno.\n",
      "Artículo 1. Cuotas\nGastos y alquiler.\n",
      "Texto libre.\n" }

LoadedDocument(filename, content) == [filename |-> filename, content |-> content]

Directories ==
    {documents \in SeqsUpTo({LoadedDocument(f, c) : f \in Filenames, c \in Contents},
                            MaxDocuments) :
        \A j, k \in 1 .. Len(documents) :
            j # k => documents[j].filename # documents[k].filename}

\* history: what segmentation and overlap made of a document
Produced(filename, chunks) ==
    [i \in 1 .. Len(chunks) |->
        [filename |-> filename, id |-> chunks[i].id, text |-> chunks[i].text]]

\* initVectorStore falls back to the local store; loadDocumentsFromDirectory
LoadDocuments ==
    /\ NoCallYet
    /\ tasks = <<>>
    /\ \E documents \in Directories :
        /\ tasks' = [pc |-> IF documents = <<>> THEN "exit" ELSE "loop",
                     documents |-> documents, next |-> 1, totalChunks |-> 0,
                     produced |-> <<>>]
        /\ lastOp' = [op |-> "loadDocumentsFromDirectory",
                      args |-> [documents |-> documents]]
    /\ client' = TRUE
    /\ useLocalStore' = TRUE
    /\ storeData' = LoadStore(file)
    /\ initialized' = TRUE
    /\ UNCHANGED <<collection, remote, file, probeCount, chosen, latest, preRestart>>

\* addChunks, local branch: the chunks of storeData once it returns
Store(chunks, embeddedChunks) == UpsertLoop(chunks, embeddedChunks)

\* a turn of the loop of main; embedChunks or addChunks may throw, and main
\* then ends with process.exit(1)
ProcessDocument ==
    /\ tasks # <<>>
    /\ tasks.pc = "loop"
    /\ tasks.next <= Len(tasks.documents)
    /\ \E ok \in BOOLEAN :
       \E doc \in {tasks.documents[tasks.next]} :
       \E code \in {detectLawInfo(doc.filename, doc.content)} :
       \E chunks \in {addOverlapContext(chunkLegalDocument(doc.content, code),
                                        IngestOverlapSize)} :
       \E stored \in {Store(Ensured(storeData, initialized, file),
                            [i \in 1 .. Len(chunks) |->
                                chunks[i] @@ [embedding |-> <<1, 0>>]])} :
          /\ lastOp' = [op |-> "ingest document",
                        args |-> [filename |-> doc.filename, code |-> code],
                        threw |-> ~ok]
          /\ IF ok
             THEN /\ storeData' = stored
                  /\ file' = SaveStore(stored)
                  /\ tasks' = [tasks EXCEPT
                                  !.next = @ + 1,
                                  !.totalChunks = @ + Len(chunks),
                                  !.produced = @ \o Produced(doc.filename, chunks)]
             ELSE /\ tasks' = [tasks EXCEPT !.pc = "exit"]
                  /\ UNCHANGED <<storeData, file>>
    /\ UNCHANGED <<facadeVars, initialized, probeCount, chosen, latest, preRestart>>

\* after the loop: getStats and the summary
Summary ==
    /\ tasks # <<>>
    /\ tasks.pc = "loop"
    /\ tasks.next > Len(tasks.documents)
    /\ tasks' = [tasks EXCEPT !.pc = "done"]
    /\ lastOp' = [op |-> "ingest summary",
                  args |-> [documents |-> tasks.documents],
                  totalChunks |-> tasks.totalChunks,
                  count |-> Len(Ensured(storeData, initialized, file))]
    /\ UNCHANGED <<facadeVars, storeData, initialized, file, probeCount, chosen,
                   latest, preRestart>>

NextIngest ==
    \/ LoadDocuments
    \/ ProcessDocument
    \/ Summary

SpecIngest == Init /\ [][NextIngest]_vars

\* C29: when the ingestion of the documents into an empty index has ended,
\* the index holds every provision segmentation produced, of every
\* document, as produced, and stats().count is the total number of
\* provisions produced.
C29_EveryProvisionOfEveryDocumentStored ==
    lastOp.op = "ingest summary"
        => /\ lastOp.count = lastOp.totalChunks
           /\ \A k \in 1 .. Len(tasks.produced) :
                 \E i \in 1 .. Len(storeData) :
                    /\ storeData[i].id = tasks.produced[k].id
                    /\ storeData[i].text = tasks.produced[k].text
====
